---------------------------- MODULE Spec2Model ----------------------------
(***************************************************************************)
(* Key discovery and per-customer column mapping of the data-model         *)
(* migration scripts.                                                      *)
(*                                                                         *)
(* Modelled here:                                                          *)
(*   - build_chunks_for_day, build_nested_mapping and the main loop of     *)
(*     simple_key_discoverer_all_customers_mt.py (thread pool included);   *)
(*   - SimpleKeyDiscoverer.generate_nested_mapping of                      *)
(*     simple_key_discovery.py.                                            *)
(*                                                                         *)
(* Representation.  A metric key (a Python str) is a sequence of code      *)
(* points, so that sorted() is the code-point lexicographic order.  A      *)
(* calendar day is its ordinal (datetime.strptime(d, "%Y-%m-%d") is read   *)
(* as the day number); a formatted timestamp "%Y-%m-%d %H:%M:%S" is the    *)
(* record of its fields.  A dict is a function.  A column name f"int{i}"   *)
(* is the string itself ("int1").                                          *)
(***************************************************************************)
EXTENDS Integers, Sequences, FiniteSets, TLC

VARIABLES
    \* ---- pure-function harness (specification SpecFn)
    call,       \* the call under examination: [fn, ...arguments]
    ret,        \* <<>> before the call returned, <<result>> after
    \* ---- the multithreaded discoverer's process (specification Spec)
    args,       \* command line: date, date_start, date_end, chunk_mins, max_workers
    table,      \* rows of the source table (the ClickHouse side)
    pc,         \* position of the main thread in main()
    dates,      \* main: dates
    di,         \* main: index of d in dates (for d in dates)
    customers,  \* main: customers of day d
    ci,         \* main: index of cid in customers (for cid in customers)
    customer_to_keys,   \* main: Dict[int, Tuple[Set[str], Set[str]]]
    chunks,     \* discover_all_keys_for_customer_day_mt: chunks
    futures,    \* ...: futures, each with the state of its _run_chunk_query task
                \* and of the client that task built ("none" | "open" | "closed")
    int_keys,   \* ...: int_keys
    float_keys, \* ...: float_keys
    done,       \* ...: done
    main_client,    \* "none" | "open" | "closed"
    out_file,   \* content of args.output: <<>> (absent), <<NoDocument>> or <<document>>
    sent,       \* kinds of query sent to ClickHouse by this run
    scan_ok,    \* history: window scans <<day, cid, i>> of this run that returned
    scan_failed,    \* history: window scans of this run that raised
    prev,       \* history: <<>> or <<record of the previous finished run>>
    \* ---- the sequential pipeline (run_transformation_pipeline.py)
    frame,      \* locals of the discover_all_keys / transform_day_data call in
                \* progress (<<>> when there is none)
    target,     \* the target table and what was done to it (<<>> when unused)
    pipeline    \* locals of run_pipeline (<<>> when it is not running)

fnVars == <<call, ret>>
envVars == <<args, table>>
loopVars == <<dates, di, customers, ci>>
frameVars == <<chunks, futures, int_keys, float_keys, done>>
scanVars == <<scan_ok, scan_failed>>
stepVars == <<frame, target, pipeline>>

vars == <<call, ret, args, table, pc, dates, di, customers, ci, customer_to_keys,
          chunks, futures, int_keys, float_keys, done, main_client, out_file, sent,
          scan_ok, scan_failed, prev, frame, target, pipeline>>

-----------------------------------------------------------------------------
(* Keys: Python str values as code-point sequences.                        *)

K_a_metric == <<97, 95, 109, 101, 116, 114, 105, 99>>
K_b_metric == <<98, 95, 109, 101, 116, 114, 105, 99>>
K_a == <<97>>
K_Z == <<90>>
K_f == <<102>>
K_blank == <<32>>

IntKeys == {K_a_metric, K_b_metric, K_a, K_Z}
FloatKeys == {K_f, K_a}

Tenants == {7, 11}

\* datetime.now() values the environment may supply
Clock == {100, 200}

SOURCE_TABLE == "default.src"

-----------------------------------------------------------------------------
(* Python built-ins used by the code.                                      *)

Range(s) == {s[i] : i \in DOMAIN s}

MinOf(a, b) == IF a <= b THEN a ELSE b

\* max(a, b)
PyMax(a, b) == IF a >= b THEN a ELSE b

\* a % b for b # 0: the result has the sign of the divisor
PyMod(a, b) == IF b > 0 THEN a % b ELSE -((-a) % (-b))

\* a // b for b # 0: floor division
PyFloorDiv(a, b) == IF b > 0 THEN a \div b ELSE (-a) \div (-b)

\* str < str: code-point lexicographic comparison
LexLess(a, b) ==
    \E i \in 1..(MinOf(Len(a), Len(b)) + 1) :
        /\ \A j \in 1..(i - 1) : a[j] = b[j]
        /\ \/ i > Len(a) /\ i <= Len(b)
           \/ i <= Len(a) /\ i <= Len(b) /\ a[i] < b[i]

\* mutant of Sorted: sorted(S, reverse=True)
RECURSIVE SortedDescending(_)
SortedDescending(S) ==
    IF S = {} THEN <<>>
    ELSE LET m == CHOOSE x \in S : \A y \in S \ {x} : LexLess(y, x)
         IN  <<m>> \o SortedDescending(S \ {m})

\* sorted(S) for a set (or de-duplicated list) of str
RECURSIVE Sorted(_)
Sorted(S) ==
    IF S = {} THEN <<>>
    ELSE LET m == CHOOSE x \in S : \A y \in S \ {x} : LexLess(x, y)
         IN  <<m>> \o Sorted(S \ {m})

\* mutant of ColName: columns numbered from 0 (enumerate without the start 1)
ColNameZeroBased(kind, i) == kind \o ToString(i - 1)

\* f"int{i}", f"float{i}"
ColName(kind, i) == kind \o ToString(i)

\* str(cid)
Str(cid) == ToString(cid)

\* mutant of EnumMapping: the columns are numbered from the end of the list
EnumMappingFromEnd(seq, kind) ==
    [k \in Range(seq) |->
        ColName(kind, Len(seq) + 1 - (CHOOSE i \in DOMAIN seq :
                          seq[i] = k /\ \A j \in DOMAIN seq : seq[j] = k => j <= i))]

\* {k: f"<kind>{i}" for i, k in enumerate(seq, 1)}: a later entry overwrites
EnumMapping(seq, kind) ==
    [k \in Range(seq) |->
        ColName(kind, CHOOSE i \in DOMAIN seq :
                          seq[i] = k /\ \A j \in DOMAIN seq : seq[j] = k => j <= i)]

\* {v: k for k, v in mapping.items()}
ReverseMapping(mapping) ==
    [c \in {mapping[k] : k \in DOMAIN mapping} |->
        CHOOSE k \in DOMAIN mapping : mapping[k] = c]

-----------------------------------------------------------------------------
(* build_chunks_for_day                                                    *)

\* datetime.strftime("%Y-%m-%d %H:%M:%S") of day `day` plus `secs` seconds
Strftime(day, secs) ==
    [day |-> day + (secs \div 86400),
     h   |-> (secs % 86400) \div 3600,
     m   |-> (secs % 3600) \div 60,
     s   |-> secs % 60]

\* mutant of ChunkAt: the end is the start of the next chunk (no "- 1 second")
ChunkAtNextStart(date, chunk_minutes, i) ==
    LET start == i * chunk_minutes * 60
        end   == start + chunk_minutes * 60
    IN  <<Strftime(date, start), Strftime(date, end)>>

\* one window: (start, end) of chunk i (0-based), end = last second of the chunk
ChunkAt(date, chunk_minutes, i) ==
    LET start == i * chunk_minutes * 60
        end   == start + chunk_minutes * 60 - 1
    IN  <<Strftime(date, start), Strftime(date, end)>>

\* mutant of build_chunks_for_day: the multiple-of-60 check is missing
build_chunks_for_day_no60(date, chunk_minutes) ==
    IF chunk_minutes = 0
    THEN [err |-> "ZeroDivisionError", chunks |-> <<>>]
    ELSE IF PyMod(1440, chunk_minutes) # 0
    THEN [err |-> "ValueError", chunks |-> <<>>]
    ELSE LET total == PyFloorDiv(1440, chunk_minutes)
         IN  [err    |-> "none",
              chunks |-> [i \in 1..total |-> ChunkAt(date, chunk_minutes, i - 1)]]

\* range(n) is empty for n <= 0
build_chunks_for_day(date, chunk_minutes) ==
    IF chunk_minutes = 0
    THEN [err |-> "ZeroDivisionError", chunks |-> <<>>]
    ELSE IF PyMod(1440, chunk_minutes) # 0
    THEN [err |-> "ValueError", chunks |-> <<>>]
    ELSE IF chunk_minutes >= 60 /\ PyMod(chunk_minutes, 60) # 0
    THEN [err |-> "ValueError", chunks |-> <<>>]
    ELSE LET total == PyFloorDiv(1440, chunk_minutes)
         IN  [err    |-> "none",
              chunks |-> [i \in 1..total |-> ChunkAt(date, chunk_minutes, i - 1)]]

-----------------------------------------------------------------------------
(* build_nested_mapping (multithreaded discoverer)                         *)

EmptyDict == [k \in {} |-> ""]

\* the per-customer block built in one iteration of the loop
CustomerBlock(int_set, float_set) ==
    LET uniq_int      == Sorted(int_set)
        uniq_float    == Sorted(float_set)
        int_mapping   == EnumMapping(uniq_int, "int")
        float_mapping == EnumMapping(uniq_float, "float")
    IN  [int_keys              |-> uniq_int,
         float_keys            |-> uniq_float,
         int_mapping           |-> int_mapping,
         float_mapping         |-> float_mapping,
         reverse_int_mapping   |-> ReverseMapping(int_mapping),
         reverse_float_mapping |-> ReverseMapping(float_mapping),
         int_columns           |-> Len(uniq_int),
         float_columns         |-> Len(uniq_float)]

\* mutant of MaxColumns: max_x_cols = len(...), the count of one customer
MaxColumnsOfOne(block, field) ==
    IF DOMAIN block = {} THEN 0
    ELSE block[CHOOSE c \in DOMAIN block : TRUE][field]

\* max_x_cols = max(max_x_cols, len(...)) over the loop, starting from 0
RECURSIVE MaxColumns(_, _)
MaxColumns(block, field) ==
    IF DOMAIN block = {} THEN 0
    ELSE LET c == CHOOSE c \in DOMAIN block : TRUE
         IN  PyMax(MaxColumns([d \in DOMAIN block \ {c} |-> block[d]], field),
                   block[c][field])

\* mutant of build_nested_mapping: one global mapping, every customer's block is
\* built from the union of all customers' keys
build_nested_mapping_global(source_table, keys_by_customer, dates_processed, now) ==
    LET all_int   == UNION {keys_by_customer[c][1] : c \in DOMAIN keys_by_customer}
        all_float == UNION {keys_by_customer[c][2] : c \in DOMAIN keys_by_customer}
        customers_block ==
            [c \in {Str(cid) : cid \in DOMAIN keys_by_customer} |->
                CustomerBlock(all_int, all_float)]
    IN  [metadata    |-> [generated_at |-> now,
                          source_table |-> source_table,
                          dates        |-> dates_processed],
         max_columns |-> [int_columns   |-> MaxColumns(customers_block, "int_columns"),
                          float_columns |-> MaxColumns(customers_block, "float_columns")],
         customers   |-> customers_block]

build_nested_mapping(source_table, keys_by_customer, dates_processed, now) ==
    LET customers_block ==
            [c \in {Str(cid) : cid \in DOMAIN keys_by_customer} |->
                LET cid == CHOOSE cid \in DOMAIN keys_by_customer : Str(cid) = c
                IN  CustomerBlock(keys_by_customer[cid][1], keys_by_customer[cid][2])]
    IN  [metadata    |-> [generated_at |-> now,
                          source_table |-> source_table,
                          dates        |-> dates_processed],
         max_columns |-> [int_columns   |-> MaxColumns(customers_block, "int_columns"),
                          float_columns |-> MaxColumns(customers_block, "float_columns")],
         customers   |-> customers_block]

-----------------------------------------------------------------------------
(* SimpleKeyDiscoverer.generate_nested_mapping                             *)

\* for i, key in enumerate(sorted_x, 1): mapping[key] = col; reverse[col] = key
RECURSIVE AssignLoop(_, _, _, _)
AssignLoop(sorted_keys, i, kind, acc) ==
    IF i > Len(sorted_keys) THEN acc
    ELSE LET col == ColName(kind, i)
         IN  AssignLoop(sorted_keys, i + 1, kind,
                        [mapping |-> (sorted_keys[i] :> col) @@ acc.mapping,
                         reverse |-> (col :> sorted_keys[i]) @@ acc.reverse])

SimpleCustomerBlock(int_list, float_list) ==
    LET sorted_int   == Sorted(Range(int_list))
        sorted_float == Sorted(Range(float_list))
        ints   == AssignLoop(sorted_int, 1, "int",
                             [mapping |-> EmptyDict, reverse |-> EmptyDict])
        floats == AssignLoop(sorted_float, 1, "float",
                             [mapping |-> EmptyDict, reverse |-> EmptyDict])
    IN  [int_keys              |-> sorted_int,
         float_keys            |-> sorted_float,
         int_mapping           |-> ints.mapping,
         float_mapping         |-> floats.mapping,
         reverse_int_mapping   |-> ints.reverse,
         reverse_float_mapping |-> floats.reverse,
         int_columns           |-> Len(sorted_int),
         float_columns         |-> Len(sorted_float)]

generate_nested_mapping(customer_keys, now) ==
    LET customers_block ==
            [c \in {Str(cid) : cid \in DOMAIN customer_keys} |->
                LET cid == CHOOSE cid \in DOMAIN customer_keys : Str(cid) = c
                IN  SimpleCustomerBlock(customer_keys[cid][1], customer_keys[cid][2])]
    IN  [metadata    |-> [generated_at |-> now,
                          source_table |-> SOURCE_TABLE],
         max_columns |-> [int_columns   |-> MaxColumns(customers_block, "int_columns"),
                          float_columns |-> MaxColumns(customers_block, "float_columns")],
         customers   |-> customers_block]

-----------------------------------------------------------------------------
(* Pure-function harness: the inputs each function is examined on.         *)

MaxDays == 2
Days == 1..MaxDays

MaxListLen == 2
MaxFloatListLen == 1

SeqsUpTo(S, n) == UNION {[1..k -> S] : k \in 0..n}

\* chunk_minutes values examined: every integer from -1500 to 1500
ChunkMinutesExamined == (-1500)..1500

\* Dict[int, Tuple[Set[str], Set[str]]]
KeySetMaps ==
    UNION {[D -> (SUBSET IntKeys) \X (SUBSET FloatKeys)] : D \in SUBSET Tenants}

\* Dict[int, Tuple[List[str], List[str]]]: customer 7 with arbitrary lists
\* (duplicates, any order), customer 11 with the sorted duplicate-free lists
\* discover_all_keys returns
ArbitraryLists == SeqsUpTo(IntKeys, MaxListLen) \X SeqsUpTo(FloatKeys, MaxFloatListLen)
DiscoveredLists == {<<Sorted(I), Sorted(F)>> : I \in SUBSET IntKeys, F \in SUBSET FloatKeys}
KeyListMaps ==
    UNION {[D -> ArbitraryLists \cup DiscoveredLists] : D \in {{}, {7}} }
    \cup {(7 :> a) @@ (11 :> d) : a \in ArbitraryLists, d \in DiscoveredLists}
    \cup {(11 :> d) : d \in DiscoveredLists}

Calls ==
    {[fn |-> "build_chunks_for_day", date |-> d, chunk_minutes |-> c] :
        d \in Days, c \in ChunkMinutesExamined}
    \cup {[fn |-> "build_nested_mapping", customer_to_keys |-> m] : m \in KeySetMaps}
    \cup {[fn |-> "generate_nested_mapping", customer_keys |-> m] : m \in KeyListMaps}

\* neither the sequential discoverer, the transformer nor run_pipeline is running
StepperOff == frame = <<>> /\ target = <<>> /\ pipeline = <<>>

\* the multithreaded discoverer's process is not running
ProcessIdle ==
    /\ args = [date |-> 0, date_start |-> 0, date_end |-> 0, chunk_mins |-> 0,
               max_workers |-> 0]
    /\ pc = "off"
    /\ dates = <<>> /\ di = 0 /\ customers = <<>> /\ ci = 0
    /\ customer_to_keys = <<>>
    /\ chunks = <<>> /\ futures = <<>> /\ int_keys = {} /\ float_keys = {} /\ done = 0
    /\ main_client = "none"
    /\ out_file = <<>>
    /\ sent = {}
    /\ scan_ok = {} /\ scan_failed = {}
    /\ prev = <<>>

\* the discoverer's process is not running in the harness, and there is no table
ProcessOff == table = {} /\ ProcessIdle

processVars == <<args, table, pc, dates, di, customers, ci, customer_to_keys,
                 chunks, futures, int_keys, float_keys, done, main_client, out_file,
                 sent, scan_ok, scan_failed, prev>>

InitFn ==
    /\ call \in Calls
    /\ ret = <<>>
    /\ ProcessOff
    /\ StepperOff

CallBuildChunks ==
    /\ call.fn = "build_chunks_for_day"
    /\ ret = <<>>
    /\ ret' = <<build_chunks_for_day(call.date, call.chunk_minutes)>>
    /\ UNCHANGED <<call, stepVars, processVars>>

CallBuildNestedMapping ==
    /\ call.fn = "build_nested_mapping"
    /\ ret = <<>>
    /\ \E now \in Clock :
           ret' = <<build_nested_mapping(SOURCE_TABLE, call.customer_to_keys, <<1>>, now)>>
    /\ UNCHANGED <<call, stepVars, processVars>>

CallGenerateNestedMapping ==
    /\ call.fn = "generate_nested_mapping"
    /\ ret = <<>>
    /\ \E now \in Clock :
           ret' = <<generate_nested_mapping(call.customer_keys, now)>>
    /\ UNCHANGED <<call, stepVars, processVars>>

NextFn == CallBuildChunks \/ CallBuildNestedMapping \/ CallGenerateNestedMapping

SpecFn == InitFn /\ [][NextFn]_vars

-----------------------------------------------------------------------------
(* The source table and the queries run against it.                        *)

\* a row: its day, customerId, timestampMs as milliseconds into the day, and the
\* keys of its metricIntGroup1..15 / metricFloatGroup1..15 maps
R1 == [day |-> 1, cid |-> 7,  ms |-> 0,        ints |-> {K_b_metric}, floats |-> {}]
R2 == [day |-> 1, cid |-> 7,  ms |-> 43200000, ints |-> {K_a_metric}, floats |-> {K_f}]
R3 == [day |-> 2, cid |-> 7,  ms |-> 86399000, ints |-> {K_Z, K_blank}, floats |-> {}]
R4 == [day |-> 1, cid |-> 11, ms |-> 43199500, ints |-> {K_a}, floats |-> {K_a}]

CandidateRows == {R1, R2, R3, R4}

\* milliseconds since day 0 of a row's timestampMs (DateTime64(3))
RowMs(r) == r.day * 86400000 + r.ms

\* a 'YYYY-MM-DD HH:MM:SS' literal compared with a DateTime64(3) column
LiteralMs(ts) == (((ts.day * 24 + ts.h) * 60 + ts.m) * 60 + ts.s) * 1000

\* the code points str.strip() removes: those for which str.isspace() is true
PyWhitespace ==
    (9..13) \cup (28..32) \cup {133, 160, 5760} \cup (8192..8202)
        \cup {8232, 8233, 8239, 8287, 12288}

\* str(r[0]).strip() is empty: every character is whitespace
IsBlank(k) == \A i \in DOMAIN k : k[i] \in PyWhitespace

\* day_range
day_range(date) ==
    <<[day |-> date, h |-> 0, m |-> 0, s |-> 0],
      [day |-> date + 1, h |-> 0, m |-> 0, s |-> 0]>>

\* list.sort() of a list of int without duplicates
RECURSIVE SortedInts(_)
SortedInts(S) ==
    IF S = {} THEN <<>>
    ELSE LET m == CHOOSE x \in S : \A y \in S : x <= y
         IN  <<m>> \o SortedInts(S \ {m})

\* mutant of fetch_all_customers_for_date: the query lacks "timestampMs < next_day"
fetch_all_customers_from_date(rows, date) ==
    LET start == day_range(date)[1]
    IN  SortedInts({r.cid : r \in {x \in rows : RowMs(x) >= LiteralMs(start)}})

\* SELECT DISTINCT customerId ... WHERE timestampMs >= start AND timestampMs < next_day
fetch_all_customers_for_date(rows, date) ==
    LET start    == day_range(date)[1]
        next_day == day_range(date)[2]
    IN  SortedInts({r.cid : r \in {x \in rows : /\ RowMs(x) >= LiteralMs(start)
                                                /\ RowMs(x) < LiteralMs(next_day)}})

\* build_union_all_keys_sql, as ClickHouse evaluates it: the distinct keys of the
\* 15 maps of the kind over the rows of the customer in [start_ts, end_ts]
build_union_all_keys_sql(rows, start_ts, end_ts, customer_id, value_type) ==
    UNION {IF value_type = "int" THEN r.ints ELSE r.floats :
              r \in {x \in rows : /\ RowMs(x) >= LiteralMs(start_ts)
                                  /\ RowMs(x) <= LiteralMs(end_ts)
                                  /\ x.cid = customer_id}}

\* [str(r[0]) for r in res.result_rows if r and str(r[0]).strip()]
KeptKeys(result_keys) == {k \in result_keys : ~IsBlank(k)}

\* what _run_chunk_query returns when neither query raises.  The two lists are
\* held as sets: the rows of SELECT DISTINCT come in no fixed order and have no
\* duplicates, and the caller only passes the lists to set.update (lines 246-250)
run_chunk_query(rows, customer_id, start_ts, end_ts) ==
    <<KeptKeys(build_union_all_keys_sql(rows, start_ts, end_ts, customer_id, "int")),
      KeptKeys(build_union_all_keys_sql(rows, start_ts, end_ts, customer_id, "float"))>>

-----------------------------------------------------------------------------
(* iter_days                                                               *)

\* None for a date argument
NoDate == 0

\* mutant of iter_days: "while cur < d1", the end day is left out
iter_days_exclusive(date, date_start, date_end) ==
    IF date # NoDate THEN [err |-> "none", days |-> <<date>>]
    ELSE IF ~(date_start # NoDate /\ date_end # NoDate)
    THEN [err |-> "SystemExit", days |-> <<>>]
    ELSE IF date_end < date_start THEN [err |-> "SystemExit", days |-> <<>>]
    ELSE [err  |-> "none",
          days |-> [i \in 1..(date_end - date_start) |-> date_start + i - 1]]

\* mutant of iter_days: "if d1 <= d0: raise", a range of one day is refused
iter_days_strict(date, date_start, date_end) ==
    IF date # NoDate THEN [err |-> "none", days |-> <<date>>]
    ELSE IF ~(date_start # NoDate /\ date_end # NoDate)
    THEN [err |-> "SystemExit", days |-> <<>>]
    ELSE IF date_end <= date_start THEN [err |-> "SystemExit", days |-> <<>>]
    ELSE [err  |-> "none",
          days |-> [i \in 1..(date_end - date_start + 1) |-> date_start + i - 1]]

iter_days(date, date_start, date_end) ==
    IF date # NoDate THEN [err |-> "none", days |-> <<date>>]
    ELSE IF ~(date_start # NoDate /\ date_end # NoDate)
    THEN [err |-> "SystemExit", days |-> <<>>]
    ELSE IF date_end < date_start THEN [err |-> "SystemExit", days |-> <<>>]
    ELSE [err  |-> "none",
          days |-> [i \in 1..(date_end - date_start + 1) |-> date_start + i - 1]]

-----------------------------------------------------------------------------
(* main() of the multithreaded discoverer, with the thread pool of         *)
(* discover_all_keys_for_customer_day_mt.                                  *)

MaxWorkers == 2

\* settings.TRANSFORMATION_DATE ("2025-10-08"), as a day
TRANSFORMATION_DATE == 1

\* lines 42-57: DEFAULTS holds "date": settings.TRANSFORMATION_DATE when
\* src.config.settings imports, and stays {} when the import raises; the date
\* field is the value of DEFAULTS.get("date")
DEFAULTS(settings_imports) ==
    [date |-> IF settings_imports THEN TRANSFORMATION_DATE ELSE NoDate]

\* lines 326-334 of parse_args: --date defaults to DEFAULTS.get("date"), while
\* --date-start and --date-end default to None; argparse does not make the three
\* options exclusive
parse_args(argv, settings_imports) ==
    [date        |-> IF argv.date # NoDate THEN argv.date
                     ELSE DEFAULTS(settings_imports).date,
     date_start  |-> argv.date_start,
     date_end    |-> argv.date_end,
     chunk_mins  |-> argv.chunk_mins,
     max_workers |-> argv.max_workers]

\* --date / --date-start / --date-end as given on the command line, each of them
\* present or not
DateArgs == (Days \cup {NoDate}) \X (Days \cup {NoDate}) \X (Days \cup {NoDate})

\* --chunk-mins values the process is run with: one, two or three windows a day,
\* and values build_chunks_for_day rejects
ChunkMinsRun == {1440, 720, 480, 0, 7, 50, 90, 100, 150, 1000, 1441, 2880, -7}

Tables == SUBSET CandidateRows

\* the command lines examined
CommandLines ==
    {[date |-> d[1], date_start |-> d[2], date_end |-> d[3],
      chunk_mins |-> c, max_workers |-> w] :
        d \in DateArgs, c \in ChunkMinsRun, w \in 0..MaxWorkers}

\* args = parse_args() of line 342, with and without an importable settings
\* module.  The tag discoverer's DEFAULTS has "date": None, so that its
\* parse_args gives the values of the command line, which are among these.
InitialArgs ==
    {parse_args(argv, settings_imports) :
        argv \in CommandLines, settings_imports \in BOOLEAN}

ProcessStart ==
    /\ pc = "start"
    /\ dates = <<>> /\ di = 0 /\ customers = <<>> /\ ci = 0
    /\ customer_to_keys = <<>>
    /\ chunks = <<>> /\ futures = <<>> /\ int_keys = {} /\ float_keys = {} /\ done = 0
    /\ main_client = "none"
    /\ sent = {}
    /\ scan_ok = {} /\ scan_failed = {}

Init ==
    /\ call = [fn |-> "main"]
    /\ ret = <<>>
    /\ args \in InitialArgs
    /\ table \in Tables
    /\ ProcessStart
    /\ StepperOff
    /\ out_file = <<>>
    /\ prev = <<>>

\* the day and customer of the discover_all_keys_for_customer_day_mt call in progress
CurDay == dates[di]
CurCid == customers[ci]

\* tasks of the pool that hold a worker thread
Running == {i \in DOMAIN futures : futures[i].st \in {"connecting", "int", "float", "tag"}}

\* mutant of CanStart: a thread per task, whatever max_workers is
CanStartUnbounded(i) ==
    /\ pc \in {"submit", "collect"}
    /\ i \in DOMAIN futures
    /\ futures[i].st = "queued"
    /\ \A j \in DOMAIN futures : j < i => futures[j].st # "queued"

\* the pool runs queued tasks in submission order, at most max_workers at a time
CanStart(i) ==
    /\ pc \in {"submit", "collect"}
    /\ i \in DOMAIN futures
    /\ futures[i].st = "queued"
    /\ \A j \in DOMAIN futures : j < i => futures[j].st # "queued"
    /\ Cardinality(Running) < args.max_workers

\* lines 351-353: dates = iter_days(...)
IterDays ==
    /\ pc = "start"
    /\ LET r == iter_days(args.date, args.date_start, args.date_end)
       IN  IF r.err # "none"
           THEN pc' = "failed" /\ UNCHANGED dates
           ELSE pc' = "validate" /\ dates' = r.days
    /\ UNCHANGED <<fnVars, stepVars, envVars, di, customers, ci, customer_to_keys, frameVars,
                   main_client, out_file, sent, scanVars, prev>>

\* lines 355-356: _ = build_chunks_for_day(dates[0], args.chunk_mins)
ValidateChunks ==
    /\ pc = "validate"
    /\ pc' = IF build_chunks_for_day(dates[1], args.chunk_mins).err # "none"
             THEN "failed" ELSE "connect"
    /\ UNCHANGED <<fnVars, stepVars, envVars, loopVars, customer_to_keys, frameVars,
                   main_client, out_file, sent, scanVars, prev>>

\* lines 361-363: build_client, test_connection returns True
ConnectOk ==
    /\ pc = "connect"
    /\ main_client' = "open"
    /\ sent' = sent \cup {"ping"}
    /\ di' = 1
    /\ pc' = "fetch"
    /\ UNCHANGED <<fnVars, stepVars, envVars, dates, customers, ci, customer_to_keys, frameVars,
                   out_file, scanVars, prev>>

\* mutant of ConnectFails: an empty mapping is written before the SystemExit
ConnectFailsWritesFile ==
    /\ pc = "connect"
    /\ main_client' = "open"
    /\ sent' = sent \cup {"ping"}
    /\ pc' = "failed"
    /\ \E now \in Clock :
          out_file' = <<build_nested_mapping(SOURCE_TABLE, customer_to_keys, dates, now)>>
    /\ UNCHANGED <<fnVars, stepVars, envVars, loopVars, customer_to_keys, frameVars,
                   scanVars, prev>>

\* line 361: build_client raises; nothing in main catches it
ConnectBuildClientRaises ==
    /\ pc = "connect"
    /\ pc' = "failed"
    /\ UNCHANGED <<fnVars, stepVars, envVars, loopVars, customer_to_keys, frameVars,
                   main_client, out_file, sent, scanVars, prev>>

\* lines 361-363: the ping fails, SystemExit
ConnectFails ==
    /\ pc = "connect"
    /\ main_client' = "open"
    /\ sent' = sent \cup {"ping"}
    /\ pc' = "failed"
    /\ UNCHANGED <<fnVars, stepVars, envVars, loopVars, customer_to_keys, frameVars,
                   out_file, scanVars, prev>>

\* lines 369-374: customers = fetch_all_customers_for_date(...); no customer: continue
FetchCustomers ==
    /\ pc = "fetch"
    /\ di <= Len(dates)
    /\ sent' = sent \cup {"customers"}
    /\ LET found == fetch_all_customers_for_date(table, CurDay)
       IN  IF found = <<>>
           THEN /\ di' = di + 1
                /\ UNCHANGED <<customers, ci, pc>>
           ELSE /\ customers' = found
                /\ ci' = 1
                /\ pc' = "discover"
                /\ UNCHANGED di
    /\ UNCHANGED <<fnVars, stepVars, envVars, dates, customer_to_keys, frameVars, main_client,
                   out_file, scanVars, prev>>

\* line 371: the query raises; nothing in main catches it
FetchCustomersRaises ==
    /\ pc = "fetch"
    /\ di <= Len(dates)
    /\ sent' = sent \cup {"customers"}
    /\ pc' = "failed"
    /\ UNCHANGED <<fnVars, stepVars, envVars, loopVars, customer_to_keys, frameVars, main_client,
                   out_file, scanVars, prev>>

\* lines 230-238: chunks, the empty key sets, the pool (max_workers <= 0: ValueError)
StartDiscover ==
    /\ pc = "discover"
    /\ chunks' = build_chunks_for_day(CurDay, args.chunk_mins).chunks
    /\ int_keys' = {}
    /\ float_keys' = {}
    /\ futures' = <<>>
    /\ done' = 0
    /\ pc' = IF args.max_workers <= 0 THEN "failed"
             ELSE IF Len(chunks') = 0 THEN "collect" ELSE "submit"
    /\ UNCHANGED <<fnVars, stepVars, envVars, loopVars, customer_to_keys, main_client,
                   out_file, sent, scanVars, prev>>

\* lines 240-241: futures.append(ex.submit(_run_chunk_query, ...))
Submit ==
    /\ pc = "submit"
    /\ futures' = Append(futures, [st |-> "queued", client |-> "none", res_int |-> {},
                                   result |-> <<{}, {}>>, yielded |-> FALSE])
    /\ pc' = IF Len(futures') = Len(chunks) THEN "collect" ELSE "submit"
    /\ UNCHANGED <<fnVars, stepVars, envVars, loopVars, customer_to_keys, chunks, int_keys,
                   float_keys, done, main_client, out_file, sent, scanVars, prev>>

\* a pool thread takes the next task of the queue and enters _run_chunk_query:
\* build_client (line 198) is under way
WorkerTakeTask ==
    \E i \in DOMAIN futures :
        /\ CanStart(i)
        /\ futures' = [futures EXCEPT ![i].st = "connecting"]
        /\ UNCHANGED <<fnVars, stepVars, envVars, pc, loopVars, customer_to_keys, chunks, int_keys,
                       float_keys, done, main_client, out_file, sent, scanVars, prev>>

\* line 198: build_client returns
WorkerStart ==
    \E i \in DOMAIN futures :
        /\ futures[i].st = "connecting"
        /\ futures' = [futures EXCEPT ![i].st = "int", ![i].client = "open"]
        /\ UNCHANGED <<fnVars, stepVars, envVars, pc, loopVars, customer_to_keys, chunks, int_keys,
                       float_keys, done, main_client, out_file, sent, scanVars, prev>>

\* line 198: build_client raises, outside the try: the task ends with the exception
WorkerBuildClientRaises ==
    \E i \in DOMAIN futures :
        /\ futures[i].st = "connecting"
        /\ futures' = [futures EXCEPT ![i].st = "err"]
        /\ scan_failed' = scan_failed \cup {<<CurDay, CurCid, i>>}
        /\ UNCHANGED <<fnVars, stepVars, envVars, pc, loopVars, customer_to_keys, chunks, int_keys,
                       float_keys, done, main_client, out_file, sent, scan_ok, prev>>

\* lines 201-203: the int query returns
WorkerIntQuery ==
    \E i \in DOMAIN futures :
        /\ i \in DOMAIN futures
        /\ futures[i].st = "int"
        /\ futures' = [futures EXCEPT
                          ![i].st = "float",
                          ![i].res_int = KeptKeys(build_union_all_keys_sql(
                                            table, chunks[i][1], chunks[i][2], CurCid, "int"))]
        /\ sent' = sent \cup {"scan"}
        /\ UNCHANGED <<fnVars, stepVars, envVars, pc, loopVars, customer_to_keys, chunks, int_keys,
                       float_keys, done, main_client, out_file, scanVars, prev>>

\* line 202: the int query raises; finally: client.close()
WorkerIntQueryRaises ==
    \E i \in DOMAIN futures :
        /\ i \in DOMAIN futures
        /\ futures[i].st = "int"
        /\ futures' = [futures EXCEPT ![i].st = "err", ![i].client = "closed"]
        /\ sent' = sent \cup {"scan"}
        /\ scan_failed' = scan_failed \cup {<<CurDay, CurCid, i>>}
        /\ UNCHANGED <<fnVars, stepVars, envVars, pc, loopVars, customer_to_keys, chunks, int_keys,
                       float_keys, done, main_client, out_file, scan_ok, prev>>

\* mutant of WorkerFloatQuery: the worker adds its keys to the shared sets itself
WorkerFloatQueryWritesShared ==
    \E i \in DOMAIN futures :
        /\ futures[i].st = "float"
        /\ futures' = [futures EXCEPT ![i].st = "ok", ![i].client = "closed",
                                      ![i].res_int = {}]
        /\ int_keys' = int_keys \cup futures[i].res_int
        /\ float_keys' = float_keys \cup KeptKeys(build_union_all_keys_sql(
                              table, chunks[i][1], chunks[i][2], CurCid, "float"))
        /\ sent' = sent \cup {"scan"}
        /\ scan_ok' = scan_ok \cup {<<CurDay, CurCid, i>>}
        /\ UNCHANGED <<fnVars, stepVars, envVars, pc, loopVars, customer_to_keys, chunks,
                       done, main_client, out_file, scan_failed, prev>>

\* lines 206-215: the float query returns; return (int_keys, float_keys); close
WorkerFloatQuery ==
    \E i \in DOMAIN futures :
        /\ i \in DOMAIN futures
        /\ futures[i].st = "float"
        /\ futures' = [futures EXCEPT
                          ![i].st = "ok",
                          ![i].client = "closed",
                          ![i].res_int = {},
                          ![i].result =
                              <<futures[i].res_int,
                                KeptKeys(build_union_all_keys_sql(
                                    table, chunks[i][1], chunks[i][2], CurCid, "float"))>>]
        /\ sent' = sent \cup {"scan"}
        /\ scan_ok' = scan_ok \cup {<<CurDay, CurCid, i>>}
        /\ UNCHANGED <<fnVars, stepVars, envVars, pc, loopVars, customer_to_keys, chunks, int_keys,
                       float_keys, done, main_client, out_file, scan_failed, prev>>

\* mutant of WorkerFloatQueryRaises: the task returns the int keys it already has
WorkerFloatQueryRaisesKeepsInts ==
    \E i \in DOMAIN futures :
        /\ futures[i].st = "float"
        /\ futures' = [futures EXCEPT ![i].st = "ok", ![i].client = "closed",
                                      ![i].res_int = {},
                                      ![i].result = <<futures[i].res_int, {}>>]
        /\ sent' = sent \cup {"scan"}
        /\ scan_failed' = scan_failed \cup {<<CurDay, CurCid, i>>}
        /\ UNCHANGED <<fnVars, stepVars, envVars, pc, loopVars, customer_to_keys, chunks, int_keys,
                       float_keys, done, main_client, out_file, scan_ok, prev>>

\* mutant of WorkerFloatQueryRaises: no "finally: client.close()"
WorkerFloatQueryRaisesLeavesOpen ==
    \E i \in DOMAIN futures :
        /\ futures[i].st = "float"
        /\ futures' = [futures EXCEPT ![i].st = "err", ![i].res_int = {}]
        /\ sent' = sent \cup {"scan"}
        /\ scan_failed' = scan_failed \cup {<<CurDay, CurCid, i>>}
        /\ UNCHANGED <<fnVars, stepVars, envVars, pc, loopVars, customer_to_keys, chunks, int_keys,
                       float_keys, done, main_client, out_file, scan_ok, prev>>

\* line 207: the float query raises; finally: client.close()
WorkerFloatQueryRaises ==
    \E i \in DOMAIN futures :
        /\ i \in DOMAIN futures
        /\ futures[i].st = "float"
        /\ futures' = [futures EXCEPT ![i].st = "err", ![i].client = "closed",
                                      ![i].res_int = {}]
        /\ sent' = sent \cup {"scan"}
        /\ scan_failed' = scan_failed \cup {<<CurDay, CurCid, i>>}
        /\ UNCHANGED <<fnVars, stepVars, envVars, pc, loopVars, customer_to_keys, chunks, int_keys,
                       float_keys, done, main_client, out_file, scan_ok, prev>>

\* mutant of MergeResult: int_keys = set(ints) instead of int_keys.update(ints)
MergeResultOverwrite(keys, got) == IF got # {} THEN got ELSE keys

\* the body of "for fut in as_completed(futures)" for a task that returned
MergeResult(keys, got) == IF got # {} THEN keys \cup got ELSE keys

\* lines 244-257: as_completed yields a finished future; its result is merged, or
\* its exception logged; done += 1
Collect ==
    \E i \in DOMAIN futures :
        /\ pc = "collect"
        /\ i \in DOMAIN futures
        /\ futures[i].st \in {"ok", "err"}
        /\ ~futures[i].yielded
        /\ futures' = [futures EXCEPT ![i].yielded = TRUE]
        /\ IF futures[i].st = "ok"
           THEN /\ int_keys' = MergeResult(int_keys, futures[i].result[1])
                /\ float_keys' = MergeResult(float_keys, futures[i].result[2])
           ELSE UNCHANGED <<int_keys, float_keys>>
        /\ done' = done + 1
        /\ UNCHANGED <<fnVars, stepVars, envVars, pc, loopVars, customer_to_keys, chunks,
                       main_client, out_file, sent, scanVars, prev>>

\* mutant of ReturnDay: the function returns as soon as a yielded future has failed
ReturnDayOnFailure ==
    /\ pc = "collect"
    /\ \/ \A i \in DOMAIN futures : futures[i].yielded
       \/ \E i \in DOMAIN futures : futures[i].yielded /\ futures[i].st = "err"
    /\ Len(futures) = Len(chunks)
    /\ pc' = "merge"
    /\ UNCHANGED <<fnVars, stepVars, envVars, loopVars, customer_to_keys, frameVars,
                   main_client, out_file, sent, scanVars, prev>>

\* mutant of ReturnDay: the function returns once everything is submitted, the
\* pool being shut down without waiting
ReturnDayWithoutWaiting ==
    /\ pc = "collect"
    /\ Len(futures) = Len(chunks)
    /\ pc' = "merge"
    /\ UNCHANGED <<fnVars, stepVars, envVars, loopVars, customer_to_keys, frameVars,
                   main_client, out_file, sent, scanVars, prev>>

\* lines 258-259: every future was yielded; the pool shuts down; return
ReturnDay ==
    /\ pc = "collect"
    /\ \A i \in DOMAIN futures : futures[i].yielded
    /\ Len(futures) = Len(chunks)
    /\ pc' = "merge"
    /\ UNCHANGED <<fnVars, stepVars, envVars, loopVars, customer_to_keys, frameVars,
                   main_client, out_file, sent, scanVars, prev>>

\* mutant of UpdateKeys: customer_to_keys = {cid: (day_ints, day_floats)}
UpdateKeysOnly(ctk, cid, day_ints, day_floats) == (cid :> <<day_ints, day_floats>>)

\* mutant of UpdateKeys: customer_to_keys[cid] = (day_ints, day_floats)
UpdateKeysOverwrite(ctk, cid, day_ints, day_floats) ==
    (cid :> <<day_ints, day_floats>>) @@ ctk

\* customer_to_keys[cid][0].update(day_ints); customer_to_keys[cid][1].update(day_floats)
UpdateKeys(ctk, cid, day_ints, day_floats) ==
    LET old == IF cid \in DOMAIN ctk THEN ctk[cid] ELSE <<{}, {}>>
    IN  (cid :> <<old[1] \cup day_ints, old[2] \cup day_floats>>) @@ ctk

\* lines 395-402, and the step of the two for loops
MergeDay ==
    /\ pc = "merge"
    /\ customer_to_keys' = UpdateKeys(customer_to_keys, CurCid, int_keys, float_keys)
    /\ IF ci < Len(customers)
       THEN ci' = ci + 1 /\ pc' = "discover" /\ UNCHANGED <<di, customers>>
       ELSE di' = di + 1 /\ pc' = "fetch" /\ ci' = 0 /\ customers' = <<>>
    /\ chunks' = <<>> /\ futures' = <<>> /\ int_keys' = {} /\ float_keys' = {}
    /\ done' = 0
    /\ UNCHANGED <<fnVars, stepVars, envVars, dates, main_client, out_file, sent, scanVars, prev>>

\* lines 404-411: main_client.close(); no customer at all: SystemExit
EndOfDays ==
    /\ pc = "fetch"
    /\ di > Len(dates)
    /\ main_client' = "closed"
    /\ pc' = IF DOMAIN customer_to_keys = {} THEN "failed" ELSE "write"
    /\ UNCHANGED <<fnVars, stepVars, envVars, loopVars, customer_to_keys, frameVars,
                   out_file, sent, scanVars, prev>>

\* lines 414-417: mapping = build_nested_mapping(...); json.dump to args.output
WriteMapping ==
    /\ pc = "write"
    /\ \E now \in Clock :
          out_file' = <<build_nested_mapping(SOURCE_TABLE, customer_to_keys, dates, now)>>
    /\ pc' = "done"
    /\ UNCHANGED <<fnVars, stepVars, envVars, loopVars, customer_to_keys, frameVars,
                   main_client, sent, scanVars, prev>>

\* lines 415-416: os.makedirs or open raises; the file is as it was
WriteFails ==
    /\ pc = "write"
    /\ pc' = "failed"
    /\ UNCHANGED <<fnVars, stepVars, envVars, loopVars, customer_to_keys, frameVars,
                   main_client, out_file, sent, scanVars, prev>>

\* what a file holds that open(path, "w") created or truncated and whose write
\* raised: no bytes, or the beginning of a document; not a JSON document
NoDocument == [unreadable |-> TRUE]

\* the file is there and holds a complete document
HoldsDocument(file) == Len(file) = 1 /\ file[1] # NoDocument

\* lines 416-417: open succeeded, and json.dump or the flush on close raises (a
\* full disk, a file-size limit): main dies with the file created or truncated,
\* the document of an earlier run gone
WriteFailsDump ==
    /\ pc = "write"
    /\ out_file' = <<NoDocument>>
    /\ pc' = "failed"
    /\ UNCHANGED <<fnVars, stepVars, envVars, loopVars, customer_to_keys, frameVars,
                   main_client, sent, scanVars, prev>>

Next ==
    \/ IterDays
    \/ ValidateChunks
    \/ ConnectOk
    \/ ConnectFails
    \/ ConnectBuildClientRaises
    \/ FetchCustomers
    \/ FetchCustomersRaises
    \/ StartDiscover
    \/ Submit
    \/ WorkerTakeTask
    \/ WorkerStart
    \/ WorkerBuildClientRaises
    \/ WorkerIntQuery
    \/ WorkerIntQueryRaises
    \/ WorkerFloatQuery
    \/ WorkerFloatQueryRaises
    \/ Collect
    \/ ReturnDay
    \/ MergeDay
    \/ EndOfDays
    \/ WriteMapping
    \/ WriteFails
    \/ WriteFailsDump

Spec == Init /\ [][Next]_vars

-----------------------------------------------------------------------------
(* A run in which the threads are scheduled fairly and every query          *)
(* eventually returns or raises.                                            *)

AwaitChunkMins == {720, 480}

InitAwait ==
    /\ Init
    /\ args.chunk_mins \in AwaitChunkMins
    /\ args.max_workers >= 1
    /\ iter_days(args.date, args.date_start, args.date_end).err = "none"

\* the main thread goes on submitting, as_completed yields a finished future,
\* the pool gives a queued task to a free worker, and a query in progress
\* returns or raises
Fairness ==
    /\ WF_vars(Submit)
    /\ WF_vars(WorkerTakeTask)
    /\ WF_vars(WorkerStart \/ WorkerBuildClientRaises)
    /\ WF_vars(WorkerIntQuery \/ WorkerIntQueryRaises)
    /\ WF_vars(WorkerFloatQuery \/ WorkerFloatQueryRaises)
    /\ WF_vars(Collect)
    /\ WF_vars(ReturnDay)

SpecAwait == InitAwait /\ [][Next]_vars /\ Fairness

-----------------------------------------------------------------------------
(* The program run again: main() invoked a second time on the same source  *)
(* table.  A run that has closed its main client (the day loop is over) is  *)
(* recorded in prev, and main starts anew; the output file stays on disk.   *)

\* the --date-start / --date-end (or --date) of the run in progress
RequestedRange ==
    IF args.date # NoDate THEN <<args.date, args.date>>
    ELSE <<args.date_start, args.date_end>>

RunRecord ==
    [range  |-> RequestedRange,
     failed |-> scan_failed,
     keys   |-> customer_to_keys,
     file   |-> out_file]

\* the command-line arguments for the days a..b
RangeArgs(a, b) ==
    IF a = b
    THEN [args EXCEPT !.date = a, !.date_start = NoDate, !.date_end = NoDate]
    ELSE [args EXCEPT !.date = NoDate, !.date_start = a, !.date_end = b]

\* main() starts again
Restart(new_args) ==
    /\ prev' = Append(prev, RunRecord)
    /\ args' = new_args
    /\ pc' = "start"
    /\ dates' = <<>> /\ di' = 0 /\ customers' = <<>> /\ ci' = 0
    /\ customer_to_keys' = <<>>
    /\ chunks' = <<>> /\ futures' = <<>> /\ int_keys' = {} /\ float_keys' = {}
    /\ done' = 0
    /\ main_client' = "none"
    /\ sent' = {}
    /\ scan_ok' = {} /\ scan_failed' = {}
    /\ UNCHANGED <<fnVars, stepVars, table, out_file>>

\* the same command line a second time, after a run that wrote its mapping
RerunSame ==
    /\ pc = "done"
    /\ Len(prev) = 0
    /\ Restart(args)

\* window sizes of the runs that are repeated: one or two windows a day
RerunChunkMins == {1440, 720}

InitRerun ==
    /\ Init
    /\ args.chunk_mins \in RerunChunkMins
    /\ args.max_workers >= 1
    /\ iter_days(args.date, args.date_start, args.date_end).err = "none"

NextRerun ==
    \/ IterDays
    \/ ValidateChunks
    \/ ConnectOk
    \/ ConnectFails
    \/ ConnectBuildClientRaises
    \/ FetchCustomers
    \/ FetchCustomersRaises
    \/ StartDiscover
    \/ Submit
    \/ WorkerTakeTask
    \/ WorkerStart
    \/ WorkerBuildClientRaises
    \/ WorkerIntQuery
    \/ WorkerIntQueryRaises
    \/ WorkerFloatQuery
    \/ WorkerFloatQueryRaises
    \/ Collect
    \/ ReturnDay
    \/ MergeDay
    \/ EndOfDays
    \/ WriteMapping
    \/ WriteFails
    \/ WriteFailsDump
    \/ RerunSame

SpecRerun == InitRerun /\ [][NextRerun]_vars

\* after a run over the days a..b whose day loop ended: a run over the first days
\* a..m, then a run over the remaining days m+1..b, with the same other arguments
RerunSplit ==
    /\ pc \in {"done", "failed"}
    /\ main_client = "closed"
    /\ \/ /\ Len(prev) = 0
          /\ \E m \in RequestedRange[1]..(RequestedRange[2] - 1) :
                Restart(RangeArgs(RequestedRange[1], m))
       \/ /\ Len(prev) = 1
          /\ Restart(RangeArgs(RequestedRange[2] + 1, prev[1].range[2]))

InitSplit ==
    /\ Init
    /\ args.chunk_mins \in RerunChunkMins
    /\ args.max_workers >= 1
    /\ args.date = NoDate
    /\ args.date_start # NoDate /\ args.date_end # NoDate
    /\ args.date_start < args.date_end

\* every window scan returns: no action in which build_client or a query of
\* _run_chunk_query raises
NextSplit ==
    \/ IterDays
    \/ ValidateChunks
    \/ ConnectOk
    \/ ConnectFails
    \/ ConnectBuildClientRaises
    \/ FetchCustomers
    \/ FetchCustomersRaises
    \/ StartDiscover
    \/ Submit
    \/ WorkerTakeTask
    \/ WorkerStart
    \/ WorkerIntQuery
    \/ WorkerFloatQuery
    \/ Collect
    \/ ReturnDay
    \/ MergeDay
    \/ EndOfDays
    \/ WriteMapping
    \/ WriteFails
    \/ WriteFailsDump
    \/ RerunSplit

SpecSplit == InitSplit /\ [][NextSplit]_vars

-----------------------------------------------------------------------------
(* Runs of the multithreaded discoverer on a table whose map keys have      *)
(* surrounding whitespace, are whitespace only, or are the empty string.     *)

K_pad_a == <<32, 97>>
K_a_pad == <<97, 32>>
K_tab   == <<9>>
K_empty == <<>>
K_nbsp  == <<160>>

P1 == [day |-> 1, cid |-> 7, ms |-> 0,
       ints |-> {K_pad_a, K_blank, K_empty}, floats |-> {K_a_pad, K_tab}]
P2 == [day |-> 1, cid |-> 7, ms |-> 43200000, ints |-> {K_a}, floats |-> {K_blank, K_nbsp}]
P3 == [day |-> 2, cid |-> 11, ms |-> 0, ints |-> {K_a_pad}, floats |-> {K_empty}]

PaddedRows == {P1, P2, P3}

PadChunkMins == {1440, 720}

InitPad ==
    /\ call = [fn |-> "main"]
    /\ ret = <<>>
    /\ args \in {a \in InitialArgs :
                    /\ a.chunk_mins \in PadChunkMins
                    /\ a.max_workers >= 1
                    /\ iter_days(a.date, a.date_start, a.date_end).err = "none"}
    /\ table \in SUBSET PaddedRows
    /\ ProcessStart
    /\ StepperOff
    /\ out_file = <<>>
    /\ prev = <<>>

NextPad ==
    \/ IterDays
    \/ ValidateChunks
    \/ ConnectOk
    \/ ConnectFails
    \/ ConnectBuildClientRaises
    \/ FetchCustomers
    \/ FetchCustomersRaises
    \/ StartDiscover
    \/ Submit
    \/ WorkerTakeTask
    \/ WorkerStart
    \/ WorkerBuildClientRaises
    \/ WorkerIntQuery
    \/ WorkerIntQueryRaises
    \/ WorkerFloatQuery
    \/ WorkerFloatQueryRaises
    \/ Collect
    \/ ReturnDay
    \/ MergeDay
    \/ EndOfDays
    \/ WriteMapping
    \/ WriteFails
    \/ WriteFailsDump

SpecPad == InitPad /\ [][NextPad]_vars

-----------------------------------------------------------------------------
(* main() of the tag-group discoverer (simple_tag_group_key_discoverer.py).  *)
(* Its iter_days, build_chunks_for_day, day_range, test_connection and       *)
(* fetch_all_customers_for_date are the same code as the multithreaded       *)
(* discoverer's, its main is the same up to the day loop and its pool is     *)
(* the same up to the worker's query, so the run shares those actions.  A    *)
(* row of the table has the keys of its tagGroup1..15 maps; a worker sends   *)
(* one query; customer_to_keys maps a customer to one set.                   *)

K_tag_x == <<120>>
K_tag_y == <<121>>

T1 == [day |-> 1, cid |-> 7,  ms |-> 3600000,  tags |-> {K_tag_x}]
T2 == [day |-> 2, cid |-> 7,  ms |-> 50400000, tags |-> {K_tag_y, K_blank}]
T3 == [day |-> 1, cid |-> 11, ms |-> 50400000, tags |-> {K_tag_x, K_tag_y}]
T4 == [day |-> 2, cid |-> 11, ms |-> 3600000,  tags |-> {K_tag_x}]

TagRows == {T1, T2, T3, T4}

\* build_union_all_keys_sql of the tag-group discoverer, as ClickHouse evaluates it
tag_build_union_all_keys_sql(rows, start_ts, end_ts, customer_id) ==
    UNION {r.tags : r \in {x \in rows : /\ RowMs(x) >= LiteralMs(start_ts)
                                          /\ RowMs(x) <= LiteralMs(end_ts)
                                          /\ x.cid = customer_id}}

\* {str(r[0]) for r in res.result_rows if r and str(r[0]).strip()}
tag_run_chunk_query(rows, customer_id, start_ts, end_ts) ==
    KeptKeys(tag_build_union_all_keys_sql(rows, start_ts, end_ts, customer_id))

\* build_nested_mapping of the tag-group discoverer
tag_build_nested_mapping(source_table, keys_by_customer, dates_processed, now) ==
    LET block == [c \in {Str(cid) : cid \in DOMAIN keys_by_customer} |->
                     LET cid == CHOOSE x \in DOMAIN keys_by_customer : Str(x) = c
                     IN  [keys      |-> Sorted(keys_by_customer[cid]),
                          key_count |-> Cardinality(keys_by_customer[cid])]]
    IN  [metadata |-> [generated_at |-> now, source_table |-> source_table,
                       dates |-> dates_processed],
         max_keys_per_customer |-> MaxColumns(block, "key_count"),
         customers |-> block]

TagChunkMins == {1440, 720, 90}

InitTag ==
    /\ call = [fn |-> "tag_main"]
    /\ ret = <<>>
    /\ args \in {a \in InitialArgs : a.chunk_mins \in TagChunkMins}
    /\ table \in SUBSET TagRows
    /\ ProcessStart
    /\ StepperOff
    /\ out_file = <<>>
    /\ prev = <<>>

\* line 301: customer_to_keys[cid] = all_keys
TagAssign(ctk, cid, all_keys) == (cid :> all_keys) @@ ctk

\* line 145: build_client returns in a worker of the tag-group discoverer
TagWorkerStart ==
    \E i \in DOMAIN futures :
        /\ futures[i].st = "connecting"
        /\ futures' = [futures EXCEPT ![i].st = "tag", ![i].client = "open"]
        /\ UNCHANGED <<fnVars, stepVars, envVars, pc, loopVars, customer_to_keys, chunks, int_keys,
                       float_keys, done, main_client, out_file, sent, scanVars, prev>>

\* lines 148-156: the query returns; return keys; finally: client.close()
TagWorkerQuery ==
    \E i \in DOMAIN futures :
        /\ futures[i].st = "tag"
        /\ futures' = [futures EXCEPT
                          ![i].st = "ok",
                          ![i].client = "closed",
                          ![i].result =
                              <<tag_run_chunk_query(table, CurCid, chunks[i][1], chunks[i][2]),
                                {}>>]
        /\ sent' = sent \cup {"scan"}
        /\ scan_ok' = scan_ok \cup {<<CurDay, CurCid, i>>}
        /\ UNCHANGED <<fnVars, stepVars, envVars, pc, loopVars, customer_to_keys, chunks, int_keys,
                       float_keys, done, main_client, out_file, scan_failed, prev>>

\* line 149: the query raises; finally: client.close()
TagWorkerQueryRaises ==
    \E i \in DOMAIN futures :
        /\ futures[i].st = "tag"
        /\ futures' = [futures EXCEPT ![i].st = "err", ![i].client = "closed"]
        /\ sent' = sent \cup {"scan"}
        /\ scan_failed' = scan_failed \cup {<<CurDay, CurCid, i>>}
        /\ UNCHANGED <<fnVars, stepVars, envVars, pc, loopVars, customer_to_keys, chunks, int_keys,
                       float_keys, done, main_client, out_file, scan_ok, prev>>

\* lines 178-190: as_completed yields a finished future; "if keys:
\* all_keys.update(keys)", or its exception logged; done += 1.  all_keys is held
\* in int_keys.
TagCollect ==
    \E i \in DOMAIN futures :
        /\ pc = "collect"
        /\ futures[i].st \in {"ok", "err"}
        /\ ~futures[i].yielded
        /\ futures' = [futures EXCEPT ![i].yielded = TRUE]
        /\ int_keys' = IF futures[i].st = "ok"
                       THEN MergeResult(int_keys, futures[i].result[1])
                       ELSE int_keys
        /\ done' = done + 1
        /\ UNCHANGED <<fnVars, stepVars, envVars, pc, loopVars, customer_to_keys, chunks,
                       float_keys, main_client, out_file, sent, scanVars, prev>>

\* lines 292-301: discover_all_keys_for_customer_day_mt has returned all_keys; the
\* assignment, and the step of the two for loops
TagDiscover ==
    /\ pc = "merge"
    /\ customer_to_keys' = TagAssign(customer_to_keys, CurCid, int_keys)
    /\ IF ci < Len(customers)
       THEN ci' = ci + 1 /\ pc' = "discover" /\ UNCHANGED <<di, customers>>
       ELSE di' = di + 1 /\ pc' = "fetch" /\ ci' = 0 /\ customers' = <<>>
    /\ chunks' = <<>> /\ futures' = <<>> /\ int_keys' = {} /\ float_keys' = {}
    /\ done' = 0
    /\ UNCHANGED <<fnVars, stepVars, envVars, dates, main_client, out_file, sent, scanVars, prev>>

\* lines 303-307: main_client.close(); no check that a customer was found
TagEndOfDays ==
    /\ pc = "fetch"
    /\ di > Len(dates)
    /\ main_client' = "closed"
    /\ pc' = "write"
    /\ UNCHANGED <<fnVars, stepVars, envVars, loopVars, customer_to_keys, frameVars,
                   out_file, sent, scanVars, prev>>

\* lines 310-313: mapping = build_nested_mapping(...); json.dump to args.output
TagWriteMapping ==
    /\ pc = "write"
    /\ \E now \in Clock :
          out_file' = <<tag_build_nested_mapping(SOURCE_TABLE, customer_to_keys, dates, now)>>
    /\ pc' = "done"
    /\ UNCHANGED <<fnVars, stepVars, envVars, loopVars, customer_to_keys, frameVars,
                   main_client, sent, scanVars, prev>>

NextTag ==
    \/ IterDays
    \/ ValidateChunks
    \/ ConnectOk
    \/ ConnectFails
    \/ ConnectBuildClientRaises
    \/ FetchCustomers
    \/ FetchCustomersRaises
    \/ StartDiscover
    \/ Submit
    \/ WorkerTakeTask
    \/ TagWorkerStart
    \/ WorkerBuildClientRaises
    \/ TagWorkerQuery
    \/ TagWorkerQueryRaises
    \/ TagCollect
    \/ ReturnDay
    \/ TagDiscover
    \/ TagEndOfDays
    \/ TagWriteMapping
    \/ WriteFails
    \/ WriteFailsDump

SpecTag == InitTag /\ [][NextTag]_vars

-----------------------------------------------------------------------------
(* DataTransformer._transform_chunk (data_transformer.py) on a mapping      *)
(* document written by build_nested_mapping.  A source row has its           *)
(* customerId and the metricIntGroup / metricFloatGroup maps in column       *)
(* order; int values are integers, float values are written as strings.      *)

S1 == [customerId |-> 7,
       int_groups   |-> <<(K_a :> 5), (K_Z :> 3) @@ (K_a :> 9)>>,
       float_groups |-> <<(K_f :> "1.5"), EmptyDict>>]
S2 == [customerId |-> 7,
       int_groups   |-> <<EmptyDict, (K_b_metric :> 2)>>,
       float_groups |-> <<EmptyDict, EmptyDict>>]
S3 == [customerId |-> 11,
       int_groups   |-> <<(K_a_metric :> 7) @@ (K_Z :> 0), EmptyDict>>,
       float_groups |-> <<EmptyDict, (K_a :> "2.5")>>]
S4 == [customerId |-> 11,
       int_groups   |-> <<(K_a :> 1), (K_b_metric :> 4)>>,
       float_groups |-> <<(K_f :> "1.5"), (K_f :> "2.5")>>]

SourceRows == {S1, S2, S3, S4}

MaxChunkRows == 2

\* the rows of one chunk: all of the same customer
SourceChunks ==
    {c \in SeqsUpTo(SourceRows, MaxChunkRows) :
        \A i, j \in DOMAIN c : c[i].customerId = c[j].customerId}

\* the key sets the mapping documents are built from
TransformKeySets ==
    {{}, {K_a}, {K_a, K_Z}, IntKeys} \X {{}, {K_f}, FloatKeys}

TransformMaps ==
    UNION {[D -> TransformKeySets] : D \in {{7}, Tenants}}

\* mutant of DefaultColumns: "for i in range(1, n)", the last column is left out
DefaultColumnsShort(kind, n, zero) ==
    [c \in {ColName(kind, i) : i \in 1..(n - 1)} |-> zero]

\* for i in range(1, n + 1): row_dict[f"<kind>{i}"] = zero
DefaultColumns(kind, n, zero) ==
    [c \in {ColName(kind, i) : i \in 1..n} |-> zero]

\* for key, value in map_data.items(): if key in mapping: row_dict[mapping[key]] = value
ApplyGroup(row_dict, map_data, mapping) ==
    LET hit == {k \in DOMAIN map_data : k \in DOMAIN mapping}
    IN  [c \in DOMAIN row_dict \cup {mapping[k] : k \in hit} |->
            IF \E k \in hit : mapping[k] = c
            THEN map_data[CHOOSE k \in hit : mapping[k] = c]
            ELSE row_dict[c]]

\* for i, map_data in enumerate(groups, 1): if map_data: ...
RECURSIVE ApplyGroups(_, _, _, _)
ApplyGroups(row_dict, groups, i, mapping) ==
    IF i > Len(groups) THEN row_dict
    ELSE ApplyGroups(ApplyGroup(row_dict, groups[i], mapping), groups, i + 1, mapping)

\* the metric columns of the row_dict built for one source row
TransformRow(row, int_mapping, float_mapping, max_int_cols, max_float_cols) ==
    LET defaults == DefaultColumns("int", max_int_cols, 0)
                    @@ DefaultColumns("float", max_float_cols, "0.0")
        with_int == ApplyGroups(defaults, row.int_groups, 1, int_mapping)
    IN  [customerId |-> row.customerId,
         metrics    |-> ApplyGroups(with_int, row.float_groups, 1, float_mapping)]

\* DataTransformer(mapping_file)._transform_chunk(source_rows)
transform_chunk(mapping, source_rows) ==
    IF source_rows = <<>> THEN [err |-> "none", rows |-> <<>>]
    ELSE LET customer_id == source_rows[1].customerId
         IN  IF Str(customer_id) \notin DOMAIN mapping.customers
             THEN [err |-> "ValueError", rows |-> <<>>]
             ELSE LET customer_mapping == mapping.customers[Str(customer_id)]
                  IN  [err  |-> "none",
                       rows |-> [i \in DOMAIN source_rows |->
                                    TransformRow(source_rows[i],
                                                 customer_mapping.int_mapping,
                                                 customer_mapping.float_mapping,
                                                 mapping.max_columns.int_columns,
                                                 mapping.max_columns.float_columns)]]

InitTransform ==
    /\ call \in {[fn |-> "transform_chunk", customer_to_keys |-> m, source_rows |-> c] :
                     m \in TransformMaps, c \in SourceChunks}
    /\ ret = <<>>
    /\ ProcessOff
    /\ StepperOff

\* the discoverer writes the mapping file, the transformer loads it and
\* transforms the chunk
CallTransformChunk ==
    /\ call.fn = "transform_chunk"
    /\ ret = <<>>
    /\ \E now \in Clock :
          ret' = <<transform_chunk(
                      build_nested_mapping(SOURCE_TABLE, call.customer_to_keys, <<1>>, now),
                      call.source_rows)>>
    /\ UNCHANGED <<call, stepVars, processVars>>

NextTransform == CallTransformChunk

SpecTransform == InitTransform /\ [][NextTransform]_vars

-----------------------------------------------------------------------------
(* Properties of the mapping functions (specification SpecFn).             *)

Returned(fn) == call.fn = fn /\ Len(ret) = 1

MappingReturned == Returned("build_nested_mapping") \/ Returned("generate_nested_mapping")

\* the customers of the call and the key sets (int, float) each was called with
CallCustomers ==
    IF call.fn = "build_nested_mapping" THEN DOMAIN call.customer_to_keys
    ELSE DOMAIN call.customer_keys

CallKeySet(cid, kind) ==
    LET idx == IF kind = "int" THEN 1 ELSE 2
    IN  IF call.fn = "build_nested_mapping" THEN call.customer_to_keys[cid][idx]
        ELSE Range(call.customer_keys[cid][idx])

Columns(kind, n) == {kind \o ToString(i) : i \in 1..n}

IsBijectionOnto(keys, mapping, reverse, count, kind) ==
    /\ count = Cardinality(keys)
    /\ DOMAIN mapping = keys
    /\ {mapping[k] : k \in keys} = Columns(kind, count)
    /\ \A k1, k2 \in keys : mapping[k1] = mapping[k2] => k1 = k2
    /\ DOMAIN reverse = Columns(kind, count)
    /\ \A k \in keys : reverse[mapping[k]] = k
    /\ \A c \in Columns(kind, count) : mapping[reverse[c]] = c

\* C1: in every customer entry of a returned mapping document, int_mapping is a
\* bijection from the customer's int keys onto exactly {int1..intK}, K =
\* int_columns = the number of distinct int keys, and reverse_int_mapping is its
\* exact inverse; the same for float.  Both build_nested_mapping and
\* SimpleKeyDiscoverer.generate_nested_mapping.
C1_MappingIsBijection ==
    MappingReturned =>
        /\ DOMAIN ret[1].customers = {Str(cid) : cid \in CallCustomers}
        /\ \A cid \in CallCustomers :
              LET e == ret[1].customers[Str(cid)]
              IN  /\ IsBijectionOnto(CallKeySet(cid, "int"), e.int_mapping,
                                     e.reverse_int_mapping, e.int_columns, "int")
                  /\ IsBijectionOnto(CallKeySet(cid, "float"), e.float_mapping,
                                     e.reverse_float_mapping, e.float_columns, "float")

\* build_nested_mapping returned for two customers, customer 7 with four int keys
\* and two float keys
C1_Witness ==
    /\ Returned("build_nested_mapping")
    /\ CallCustomers = Tenants
    /\ ret[1].customers["7"].int_columns = 4
    /\ ret[1].customers["7"].float_columns = 2

WidthOk(kind, maxcol, colfield, mapfield) ==
    /\ \A cid \in CallCustomers : maxcol >= ret[1].customers[Str(cid)][colfield]
    /\ \E cid \in CallCustomers : maxcol = ret[1].customers[Str(cid)][colfield]
    /\ \A cid \in CallCustomers :
          LET e == ret[1].customers[Str(cid)]
          IN  /\ e[colfield] = Cardinality(CallKeySet(cid, kind))
              /\ CallKeySet(cid, kind) = {} =>
                    /\ DOMAIN e[mapfield] = {}
                    /\ e[colfield] = 0
              \* every column the mapping names is one of <kind>1..<kind>max
              /\ {e[mapfield][k] : k \in DOMAIN e[mapfield]} \subseteq Columns(kind, maxcol)

\* C2: in a mapping document built from a non-empty customer map,
\* max_columns.int_columns is >= every customer's int_columns and equals the
\* int_columns of at least one customer (same for float); a customer with no key
\* of a kind has an empty mapping of that kind and counts 0; no mapping names a
\* column above the global maximum.
C2_MaxColumnsIsWidth ==
    (MappingReturned /\ CallCustomers # {}) =>
        /\ WidthOk("int", ret[1].max_columns.int_columns, "int_columns", "int_mapping")
        /\ WidthOk("float", ret[1].max_columns.float_columns, "float_columns",
                   "float_mapping")

\* two customers: 7 has no int key, 11 has three; 7 has the wider float mapping
C2_Witness ==
    /\ Returned("build_nested_mapping")
    /\ CallCustomers = Tenants
    /\ ret[1].customers["7"].int_columns = 0
    /\ ret[1].customers["11"].int_columns = 3
    /\ ret[1].customers["7"].float_columns = 2
    /\ ret[1].customers["11"].float_columns = 1
    /\ ret[1].max_columns = [int_columns |-> 3, float_columns |-> 2]

\* 1 + the number of keys of the set that sort before k
RankIn(keys, k) == 1 + Cardinality({j \in keys : LexLess(j, k)})

\* C3: build_nested_mapping gives column N (1-based) to the N-th key of the
\* customer's key set in lexicographic order, int keys and float keys numbered
\* separately (each numbering depends on its own key set only); int keys
\* {b_metric, a_metric} give {a_metric: int1, b_metric: int2}.
C3_ColumnIsLexicographicRank ==
    Returned("build_nested_mapping") =>
        \A cid \in CallCustomers :
            LET e      == ret[1].customers[Str(cid)]
                ints   == call.customer_to_keys[cid][1]
                floats == call.customer_to_keys[cid][2]
            IN  /\ \A k \in ints : e.int_mapping[k] = "int" \o ToString(RankIn(ints, k))
                /\ \A k \in floats :
                      e.float_mapping[k] = "float" \o ToString(RankIn(floats, k))
                /\ ints = {K_b_metric, K_a_metric} =>
                      e.int_mapping = (K_a_metric :> "int1") @@ (K_b_metric :> "int2")
                /\ ints = IntKeys =>
                      e.int_mapping = (K_Z :> "int1") @@ (K_a :> "int2")
                                      @@ (K_a_metric :> "int3") @@ (K_b_metric :> "int4")
                /\ floats = FloatKeys =>
                      e.float_mapping = (K_a :> "float1") @@ (K_f :> "float2")

\* customer 7 was called with int keys {b_metric, a_metric} and both float keys,
\* one of which (a) is no int key of the customer
C3_Witness ==
    /\ Returned("build_nested_mapping")
    /\ 7 \in CallCustomers
    /\ call.customer_to_keys[7] = <<{K_b_metric, K_a_metric}, FloatKeys>>
    /\ ret[1].customers["7"].int_mapping[K_b_metric] = "int2"

\* seconds since day 0 of a formatted timestamp
Secs(ts) == ((ts.day * 24 + ts.h) * 60 + ts.m) * 60 + ts.s

\* C10: for every positive chunk_minutes build_chunks_for_day accepts, the result
\* is exactly 1440/chunk_minutes windows in ascending order, the first starting
\* at 00:00:00 and the last ending at 23:59:59 of the same day; every window has
\* end > start and spans chunk_minutes minutes minus one second; each window
\* starts exactly one second after the previous one ends (no overlap).
C10_ChunksTileTheDay ==
    (Returned("build_chunks_for_day") /\ call.chunk_minutes > 0
        /\ ret[1].err = "none") =>
        LET windows == ret[1].chunks
            n      == Len(windows)
        IN  /\ n * call.chunk_minutes = 1440
            /\ n >= 1
            /\ windows[1][1] = [day |-> call.date, h |-> 0, m |-> 0, s |-> 0]
            /\ windows[n][2] = [day |-> call.date, h |-> 23, m |-> 59, s |-> 59]
            /\ \A i \in 1..n :
                  /\ Secs(windows[i][2]) > Secs(windows[i][1])
                  /\ Secs(windows[i][2]) - Secs(windows[i][1]) = call.chunk_minutes * 60 - 1
                  /\ windows[i][1].day = call.date /\ windows[i][2].day = call.date
                  /\ windows[i][2].h \in 0..23 /\ windows[i][2].m \in 0..59
                  /\ windows[i][2].s \in 0..59
            /\ \A i \in 1..(n - 1) :
                  /\ Secs(windows[i + 1][1]) = Secs(windows[i][2]) + 1
                  /\ Secs(windows[i][2]) < Secs(windows[i + 1][1])

\* a day cut into 45-minute windows: 32 of them, the second from 00:45:00 to 01:29:59
C10_Witness ==
    /\ Returned("build_chunks_for_day")
    /\ call.chunk_minutes = 45
    /\ Len(ret[1].chunks) = 32
    /\ ret[1].chunks[2] = <<[day |-> call.date, h |-> 0, m |-> 45, s |-> 0],
                            [day |-> call.date, h |-> 1, m |-> 29, s |-> 59]>>

-----------------------------------------------------------------------------
(* Properties of a discovery run (specification Spec).                     *)

\* window i of day d under the run's --chunk-mins
WindowOf(d, i) == build_chunks_for_day(d, args.chunk_mins).chunks[i]

\* what the scan of window i of day d returns for customer cid: <<ints, floats>>
ScanResult(d, cid, i) ==
    run_chunk_query(table, cid, WindowOf(d, i)[1], WindowOf(d, i)[2])

\* windows of the (day, customer) in progress whose future as_completed has yielded
\* and whose scan returned
YieldedOk == {i \in DOMAIN futures : futures[i].yielded /\ <<CurDay, CurCid, i>> \in scan_ok}

\* C6: in discover_all_keys_for_customer_day_mt the key sets are, after any
\* number of completions, the union of the results of the yielded windows that
\* succeeded, and on return exactly the union over the windows that succeeded: a
\* failed window adds nothing and removes nothing; with every window failed the
\* function still returns, with two empty sets.
C6_DayResultIsUnionOfSucceeded ==
    pc \in {"collect", "merge"} =>
        /\ int_keys = UNION {ScanResult(CurDay, CurCid, i)[1] : i \in YieldedOk}
        /\ float_keys = UNION {ScanResult(CurDay, CurCid, i)[2] : i \in YieldedOk}
        /\ pc = "merge" =>
              /\ Len(futures) = Len(chunks)
              /\ YieldedOk = {i \in DOMAIN chunks : <<CurDay, CurCid, i>> \notin scan_failed}
              /\ (\A i \in DOMAIN chunks : <<CurDay, CurCid, i>> \in scan_failed)
                    => int_keys = {} /\ float_keys = {}

\* customer 7, day 1, three windows: the first (holding b_metric) failed, the
\* second returned a_metric and f, and the function has returned
C6_Witness ==
    /\ pc = "merge"
    /\ CurDay = 1 /\ CurCid = 7
    /\ Len(chunks) = 3
    /\ {R1, R2} \subseteq table
    /\ scan_failed = {<<1, 7, 1>>}
    /\ int_keys = {K_a_metric}
    /\ float_keys = {K_f}

\* the scans of customer cid that returned, over the whole run
OkScansOf(cid) == {sc \in scan_ok : sc[2] = cid}

\* the customers the run has merged at least one (day, customer) result for
MergedCustomers == {sc[2] : sc \in scan_ok \cup scan_failed}

\* the union of the results of the customer's scans that returned
ExpectedKeys(cid) ==
    <<UNION {ScanResult(sc[1], cid, sc[3])[1] : sc \in OkScansOf(cid)},
      UNION {ScanResult(sc[1], cid, sc[3])[2] : sc \in OkScansOf(cid)}>>

WithoutTimestamp(doc) ==
    [doc EXCEPT !.metadata = [source_table |-> doc.metadata.source_table,
                              dates |-> doc.metadata.dates]]

-----------------------------------------------------------------------------
(* main() with the processing order shuffled: the day loop (lines 369-398)  *)
(* run over the days of iter_days in any order, and the customer loop over  *)
(* the customers of the day in any order.  The program itself goes through  *)
(* the days ascending and the customers sorted; these runs are the ones of  *)
(* a test that permutes the processing order.                               *)

\* the lists holding the elements of s, each once
Shuffles(s) == {t \in [DOMAIN s -> Range(s)] : Range(t) = Range(s)}

\* lines 351-353, with the list iter_days returns put in any order
IterDaysShuffled ==
    /\ pc = "start"
    /\ LET r == iter_days(args.date, args.date_start, args.date_end)
       IN  IF r.err # "none"
           THEN pc' = "failed" /\ UNCHANGED dates
           ELSE pc' = "validate" /\ dates' \in Shuffles(r.days)
    /\ UNCHANGED <<fnVars, stepVars, envVars, di, customers, ci, customer_to_keys, frameVars,
                   main_client, out_file, sent, scanVars, prev>>

\* lines 371-374, with the list fetch_all_customers_for_date returns put in any
\* order; prev keeps, day after day, the order taken
FetchCustomersShuffled ==
    /\ pc = "fetch"
    /\ di <= Len(dates)
    /\ sent' = sent \cup {"customers"}
    /\ LET found == fetch_all_customers_for_date(table, CurDay)
       IN  IF found = <<>>
           THEN /\ di' = di + 1
                /\ UNCHANGED <<customers, ci, pc, prev>>
           ELSE /\ customers' \in Shuffles(found)
                /\ prev' = Append(prev, [day |-> CurDay, customers |-> customers'])
                /\ ci' = 1
                /\ pc' = "discover"
                /\ UNCHANGED di
    /\ UNCHANGED <<fnVars, stepVars, envVars, dates, customer_to_keys, frameVars, main_client,
                   out_file, scanVars>>

\* window sizes of the shuffled runs: one or two windows a day
ShuffleChunkMins == {1440, 720}

InitShuffle ==
    /\ Init
    /\ args.chunk_mins \in ShuffleChunkMins
    /\ args.max_workers >= 1
    /\ iter_days(args.date, args.date_start, args.date_end).err = "none"

NextShuffle ==
    \/ IterDaysShuffled
    \/ ValidateChunks
    \/ ConnectOk
    \/ ConnectFails
    \/ ConnectBuildClientRaises
    \/ FetchCustomersShuffled
    \/ FetchCustomersRaises
    \/ StartDiscover
    \/ Submit
    \/ WorkerTakeTask
    \/ WorkerStart
    \/ WorkerBuildClientRaises
    \/ WorkerIntQuery
    \/ WorkerIntQueryRaises
    \/ WorkerFloatQuery
    \/ WorkerFloatQueryRaises
    \/ Collect
    \/ ReturnDay
    \/ MergeDay
    \/ EndOfDays
    \/ WriteMapping
    \/ WriteFails
    \/ WriteFailsDump

SpecShuffle == InitShuffle /\ [][NextShuffle]_vars

\* the key sets fixed by the results of the window scans: for each customer the
\* union of the results of its scans that returned
FixedKeySets == [cid \in MergedCustomers |-> ExpectedKeys(cid)]

\* the document of the run that goes through the days and the customers in the
\* program's own order, with the same scans returning (generated_at apart)
DocumentInProgramOrder ==
    WithoutTimestamp(build_nested_mapping(
        SOURCE_TABLE, FixedKeySets,
        iter_days(args.date, args.date_start, args.date_end).days, 0))

\* C7 (as claimed): for fixed per-window scan results, every completion order
\* of the window scans and every order in which days and customers are processed
\* gives the same final per-customer key sets and the same mapping document,
\* generated_at apart.
C7_SameDocumentUnderEveryOrder ==
    pc = "done" =>
        /\ customer_to_keys = FixedKeySets
        /\ WithoutTimestamp(out_file[1]) = DocumentInProgramOrder

\* C7 (amended): for fixed per-window scan results, every completion order of
\* the window scans and every order in which days and customers are processed
\* gives the same final per-customer key sets (the union of the results of the
\* scans that returned) and a document with the same customers block, the same
\* max_columns and the same source table and set of days; metadata.dates lists
\* the days in the order they were processed.
C7_ResultIndependentOfOrder ==
    pc \in {"write", "done"} =>
        /\ DOMAIN customer_to_keys = MergedCustomers
        /\ \A cid \in DOMAIN customer_to_keys : customer_to_keys[cid] = ExpectedKeys(cid)
        /\ pc = "done" =>
              /\ out_file[1].customers = DocumentInProgramOrder.customers
              /\ out_file[1].max_columns = DocumentInProgramOrder.max_columns
              /\ out_file[1].metadata.source_table
                    = DocumentInProgramOrder.metadata.source_table
              /\ Range(out_file[1].metadata.dates)
                    = Range(DocumentInProgramOrder.metadata.dates)
              /\ out_file[1].metadata.dates = dates

\* a finished run over both days and both customers, day 2 before day 1 and, on
\* day 1, customer 11 before customer 7, with two workers, two windows a day and
\* one window of customer 7 failed on day 1: the key sets are those of the run in
\* the program's order
C7_Witness ==
    /\ pc = "done"
    /\ dates = <<2, 1>>
    /\ prev = <<[day |-> 2, customers |-> <<7>>], [day |-> 1, customers |-> <<11, 7>>]>>
    /\ args.max_workers = 2
    /\ args.chunk_mins = 720
    /\ table = CandidateRows
    /\ scan_failed = {<<1, 7, 1>>}
    /\ customer_to_keys[7] = <<{K_a_metric, K_Z}, {K_f}>>
    /\ DOMAIN customer_to_keys = {7, 11}
    /\ out_file[1].metadata.dates = <<2, 1>>

\* C8 (as claimed): a run in which no window scan succeeded for any customer on
\* any day never writes the mapping file; the file is written only if at least
\* one window scan of the run succeeded.
C8_NoSuccessNoFile ==
    (pc = "done" \/ HoldsDocument(out_file)) => scan_ok # {}

\* n evenly divides 1440 / n is a multiple of 60
Divides1440(n) == \E q \in (-1440)..1440 : q * n = 1440
MultipleOf60(n) == \E q \in 0..(n \div 60) : q * 60 = n

InvalidWindowSize(n) == ~Divides1440(n) \/ (n >= 60 /\ ~MultipleOf60(n))

\* C9: a window size that does not evenly divide 1440, or that is >= 60 and no
\* multiple of 60, makes build_chunks_for_day raise, and main raises it before the
\* connectivity probe, before any customer query and before any window scan: a
\* run with such a window size sends no query at all.
C9_InvalidWindowSizeFailsBeforeAnyQuery ==
    InvalidWindowSize(args.chunk_mins) =>
        /\ \A d \in Days : build_chunks_for_day(d, args.chunk_mins).err # "none"
        /\ pc \in {"start", "validate", "failed"}
        /\ sent = {}
        /\ main_client = "none"
        /\ futures = <<>>
        /\ scan_ok = {} /\ scan_failed = {}
        /\ Len(out_file) = 0

\* --chunk-mins 90 (divides 1440, >= 60, no multiple of 60): main has computed the
\* dates and died in the validation
C9_Witness ==
    /\ args.chunk_mins = 90
    /\ pc = "failed"
    /\ dates = <<1, 2>>
    /\ sent = {}

-----------------------------------------------------------------------------
(* Properties of repeated runs (specifications SpecRerun and SpecSplit).   *)

\* both runs of the same command line have written their mapping
BothRunsDone == Len(prev) = 1 /\ pc = "done" /\ HoldsDocument(prev[1].file)

\* the second run computed the key sets and the document of the first
SameResult ==
    /\ customer_to_keys = prev[1].keys
    /\ WithoutTimestamp(out_file[1]) = WithoutTimestamp(prev[1].file[1])

\* C4 (as claimed): two runs of the whole discovery over the same day range and
\* tenant set against the same source data give identical per-tenant key lists,
\* key->column assignments and max_columns (everything except generated_at).
C4_RerunGivesSameDocument ==
    BothRunsDone => SameResult

\* C4 (amended): two runs of the whole discovery over the same day range against
\* the same source data in which the same window scans failed (in particular:
\* none failed in either) give identical per-tenant key sets, key->column
\* assignments and max_columns (everything except generated_at); and merging the
\* key sets of the first run into the second run's a second time changes nothing.
C4_RerunSameScansSameDocument ==
    (BothRunsDone /\ prev[1].failed = scan_failed) =>
        /\ SameResult
        /\ \A cid \in DOMAIN customer_to_keys :
              UpdateKeys(customer_to_keys, cid, prev[1].keys[cid][1],
                         prev[1].keys[cid][2]) = customer_to_keys

\* two finished two-day runs over both customers, two windows a day, no scan
\* failed in either, written at different times
C4_Witness ==
    /\ BothRunsDone
    /\ prev[1].failed = {} /\ scan_failed = {}
    /\ dates = <<1, 2>>
    /\ args.chunk_mins = 720
    /\ table = CandidateRows
    /\ customer_to_keys[7] = <<{K_a_metric, K_b_metric, K_Z}, {K_f}>>
    /\ out_file[1].metadata.generated_at # prev[1].file[1].metadata.generated_at

\* the key sets a finished run accumulated for the customer (none: empty sets)
KeysOf(ctk, cid) == IF cid \in DOMAIN ctk THEN ctk[cid] ELSE <<{}, {}>>

\* the runs over a..b, a..m and m+1..b have all ended their day loop
SplitRunsDone ==
    /\ Len(prev) = 2
    /\ main_client = "closed"
    /\ prev[2].range[1] = prev[1].range[1]
    /\ RequestedRange[1] = prev[2].range[2] + 1
    /\ RequestedRange[2] = prev[1].range[2]

\* C5: with every window scan succeeding, the key sets main accumulates for a
\* tenant in one run over the days [D1, D2] are the union (int and float) of the
\* key sets of a run over [D1] and of a separate run over [D2].
C5_RangeRunIsUnionOfDayRuns ==
    SplitRunsDone =>
        /\ scan_failed = {} /\ prev[1].failed = {} /\ prev[2].failed = {}
        /\ DOMAIN prev[1].keys = DOMAIN prev[2].keys \cup DOMAIN customer_to_keys
        /\ \A cid \in Tenants :
              /\ KeysOf(prev[1].keys, cid)[1] =
                     KeysOf(prev[2].keys, cid)[1] \cup KeysOf(customer_to_keys, cid)[1]
              /\ KeysOf(prev[1].keys, cid)[2] =
                     KeysOf(prev[2].keys, cid)[2] \cup KeysOf(customer_to_keys, cid)[2]

\* runs over days 1..2, day 1 and day 2 on the full table: customer 7 has keys on
\* both days, customer 11 on day 1 only
C5_Witness ==
    /\ SplitRunsDone
    /\ table = CandidateRows
    /\ prev[1].range = <<1, 2>> /\ prev[2].range = <<1, 1>> /\ RequestedRange = <<2, 2>>
    /\ prev[1].keys[7] = <<{K_a_metric, K_b_metric, K_Z}, {K_f}>>
    /\ prev[2].keys[7] = <<{K_a_metric, K_b_metric}, {K_f}>>
    /\ prev[2].keys[11] = <<{K_a}, {K_a}>>
    /\ customer_to_keys = (7 :> <<{K_Z}, {}>>)

-----------------------------------------------------------------------------
(* Further properties of a discovery run (specification Spec).             *)

\* nothing was sent to the server, no client, no pool, no file
NothingDone ==
    /\ sent = {}
    /\ main_client = "none"
    /\ futures = <<>>
    /\ scan_ok = {} /\ scan_failed = {}
    /\ Len(out_file) = 0

\* C11: iter_days returns the single given day when a date is supplied; otherwise
\* every day from date_start to date_end inclusive, ascending, without duplicates
\* (day difference + 1 of them, one when start = end); when the end is before the
\* start, or neither a date nor both ends are given, it raises, and main has then
\* built no client and sent nothing.
C11_IterDaysInclusiveRange ==
    pc # "start" =>
        IF args.date # NoDate
        THEN dates = <<args.date>>
        ELSE IF args.date_start # NoDate /\ args.date_end # NoDate
                /\ args.date_start <= args.date_end
        THEN /\ Len(dates) = args.date_end - args.date_start + 1
             /\ dates[1] = args.date_start
             /\ dates[Len(dates)] = args.date_end
             /\ \A i \in 1..(Len(dates) - 1) : dates[i + 1] = dates[i] + 1
        ELSE /\ pc = "failed"
             /\ dates = <<>>
             /\ NothingDone

\* --date-start 2 --date-end 2: the run goes over the one day 2 and finishes
C11_Witness ==
    /\ args.date = NoDate
    /\ args.date_start = 2 /\ args.date_end = 2
    /\ dates = <<2>>
    /\ pc = "done"

\* every customer of the accumulator stays in it, with key sets that include the
\* ones it had
AccumulatorGrows ==
    \A cid \in DOMAIN customer_to_keys :
        /\ cid \in DOMAIN customer_to_keys'
        /\ customer_to_keys[cid][1] \subseteq customer_to_keys'[cid][1]
        /\ customer_to_keys[cid][2] \subseteq customer_to_keys'[cid][2]

\* within one (day, customer) the key sets grow with every completion
DaySetsGrow ==
    (pc = "collect" /\ pc' = "collect") =>
        int_keys \subseteq int_keys' /\ float_keys \subseteq float_keys'

\* C13: during a run every tenant's accumulated int and float key sets only
\* grow: each step, the merge of a (day, tenant) result in particular, leaves
\* each set a superset of what it was, and a tenant in the accumulator is never
\* removed.
C13_KeySetsOnlyGrow == [][AccumulatorGrows /\ DaySetsGrow]_vars

\* day 2 has been merged into what day 1 gave customer 7
C13_Witness ==
    /\ dates = <<1, 2>>
    /\ di = 3
    /\ DOMAIN customer_to_keys = {7, 11}
    /\ customer_to_keys[7] = <<{K_a_metric, K_b_metric, K_Z}, {K_f}>>
    /\ customer_to_keys[11] = <<{K_a}, {K_a}>>

\* C16 (as claimed): a failure of one day's scanning, a raising customer query of
\* the day included, is logged and the day skipped, and the run goes on with the
\* remaining days: once the day loop has begun (and the pool can be built) the
\* run does not die inside the day loop, so a dead run has closed its main
\* client after the last day.
C16_DayFailureIsSkipped ==
    (pc = "failed" /\ "customers" \in sent /\ args.max_workers >= 1) =>
        main_client = "closed"

\* C17: when the connectivity probe fails, main ends with SystemExit before any
\* customer query or window scan, and the output file is not written or changed:
\* a run that has sent a customer query or a scan, built a pool or written the
\* file has passed the probe, and a run dead after the probe only has sent nothing
\* but the ping.
C17_ProbeFailureStopsBeforeAnyQuery ==
    /\ (pc = "failed" /\ main_client = "open" /\ di = 0) =>
          /\ sent = {"ping"}
          /\ futures = <<>> /\ customers = <<>>
          /\ customer_to_keys = <<>>
          /\ scan_ok = {} /\ scan_failed = {}
          /\ Len(out_file) = 0
    /\ (sent \ {"ping"} # {} \/ Len(futures) > 0 \/ Len(out_file) > 0) =>
          /\ "ping" \in sent
          /\ di >= 1

\* the probe failed: the run is dead with the main client built and only the
\* ping sent
C17_Witness ==
    /\ pc = "failed"
    /\ main_client = "open"
    /\ di = 0
    /\ sent = {"ping"}
    /\ table = CandidateRows
    /\ Len(dates) = 2

-----------------------------------------------------------------------------
(* Further properties of split runs (specification SpecSplit).             *)

\* the customers with a row on day d
TenantsOn(d) == {r.cid : r \in {x \in table : x.day = d}}

\* no customer has a row on any of the days a..b
NoTenantIn(range) == \A d \in range[1]..range[2] : TenantsOn(d) = {}

\* the per-customer part and the width of the mapping built from key sets
MappingOf(ctk) ==
    LET doc == build_nested_mapping(SOURCE_TABLE, ctk, <<>>, 0)
    IN  [customers |-> doc.customers, max_columns |-> doc.max_columns]

WrittenMapping(file) ==
    [customers |-> file[1].customers, max_columns |-> file[1].max_columns]

\* C12: a day whose customer query returns no customer gets no window scan and
\* leaves the accumulated key sets as they are, and the run goes on: the key sets
\* and the mapping written by a run over a range are those of a run over the
\* range without its days that have no customer.
C12_EmptyDayIsSkipped ==
    /\ \A sc \in scan_ok \cup scan_failed : sc[2] \in TenantsOn(sc[1])
    /\ DOMAIN customer_to_keys \subseteq UNION {TenantsOn(d) : d \in Range(dates)}
    /\ (SplitRunsDone /\ NoTenantIn(RequestedRange)) =>
          /\ customer_to_keys = <<>>
          /\ prev[1].keys = prev[2].keys
          /\ HoldsDocument(prev[1].file) =>
                WrittenMapping(prev[1].file) = MappingOf(prev[2].keys)
    /\ (SplitRunsDone /\ NoTenantIn(prev[2].range)) =>
          /\ prev[2].keys = <<>>
          /\ prev[1].keys = customer_to_keys
          /\ HoldsDocument(prev[1].file) =>
                WrittenMapping(prev[1].file) = MappingOf(customer_to_keys)

\* the only row is of day 2: the run over days 1..2 skipped day 1, scanned day 2
\* and wrote the mapping of customer 7; the run over day 1 found nothing
C12_Witness ==
    /\ SplitRunsDone
    /\ table = {R3}
    /\ prev[1].range = <<1, 2>>
    /\ prev[1].keys = (7 :> <<{K_Z}, {}>>)
    /\ HoldsDocument(prev[1].file)
    /\ prev[2].keys = <<>>
    /\ customer_to_keys = (7 :> <<{K_Z}, {}>>)

-----------------------------------------------------------------------------
(* Properties of a run of the tag-group discoverer (specification SpecTag). *)

\* the union of the results of the customer's window scans that returned, over
\* all days of the run
TagExpectedKeys(cid) ==
    UNION {tag_run_chunk_query(
               table, cid,
               build_chunks_for_day(sc[1], args.chunk_mins).chunks[sc[3]][1],
               build_chunks_for_day(sc[1], args.chunk_mins).chunks[sc[3]][2]) :
           sc \in {x \in scan_ok : x[2] = cid}}

\* C14 (as claimed): in the tag-group discoverer's main loop the key set of each
\* (day, tenant) is unioned into the tenant's running key set, so the final key
\* set of a tenant active on several days is the union of its key sets over all
\* processed days.
C14_TagKeysAreUnionOverDays ==
    pc \in {"write", "done"} =>
        \A cid \in DOMAIN customer_to_keys : customer_to_keys[cid] = TagExpectedKeys(cid)

-----------------------------------------------------------------------------
(* Properties of the keys kept (specification SpecPad).                    *)

IsSpace(c) == c \in {32, 9, 10, 13}

\* a non-empty string without leading or trailing whitespace
IsTrimmed(k) == Len(k) > 0 /\ ~IsSpace(k[1]) /\ ~IsSpace(k[Len(k)])

\* every key a window scan has returned, or that is in a key set of the run
KeysHeld ==
    UNION {futures[i].res_int \cup futures[i].result[1] \cup futures[i].result[2] :
              i \in DOMAIN futures}
    \cup int_keys \cup float_keys
    \cup UNION {customer_to_keys[cid][1] \cup customer_to_keys[cid][2] :
                   cid \in DOMAIN customer_to_keys}

\* C15 (as claimed): every key returned by a window scan and every key stored in
\* a tenant's key set is a non-empty string without leading or trailing
\* whitespace; an empty or whitespace-only key is never added to a key set.
C15_KeysAreTrimmed == \A k \in KeysHeld : IsTrimmed(k)

-----------------------------------------------------------------------------
(* Properties of the transformed rows (specification SpecTransform).       *)

\* the value of key k in the last of the groups that has it, or zero
SourceValue(groups, k, zero) ==
    LET has == {g \in DOMAIN groups : k \in DOMAIN groups[g]}
    IN  IF has = {} THEN zero
        ELSE groups[CHOOSE g \in has : \A h \in has : h <= g][k]

\* what column <kind>n of a row of customer cid must hold
ExpectedCell(keys, n, groups, zero) ==
    IF n <= Cardinality(keys)
    THEN SourceValue(groups, CHOOSE k \in keys : RankIn(keys, k) = n, zero)
    ELSE zero

\* the widest int / float key set of the call
WidestKeySet(idx) ==
    CHOOSE n \in 0..(Cardinality(IntKeys) + Cardinality(FloatKeys)) :
        /\ \A cid \in DOMAIN call.customer_to_keys :
              Cardinality(call.customer_to_keys[cid][idx]) <= n
        /\ \E cid \in DOMAIN call.customer_to_keys :
              Cardinality(call.customer_to_keys[cid][idx]) = n

\* C18: every row _transform_chunk emits for a tenant of a mapping document of
\* build_nested_mapping has exactly the metric columns int1..int<max_int_columns>
\* and float1..float<max_float_columns>, whatever the tenant; a column holds the
\* source map value of the tenant's key assigned to it (the value in the last
\* group that has the key), and 0 / 0.0 when the tenant has no key for the column
\* or the row no value for the key.
C18_RowsHaveFixedWidth ==
    (Returned("transform_chunk") /\ Len(call.source_rows) > 0
        /\ call.source_rows[1].customerId \in DOMAIN call.customer_to_keys) =>
        /\ ret[1].err = "none"
        /\ Len(ret[1].rows) = Len(call.source_rows)
        /\ \A i \in DOMAIN ret[1].rows :
              LET src  == call.source_rows[i]
                  keys == call.customer_to_keys[src.customerId]
                  out  == ret[1].rows[i].metrics
              IN  /\ DOMAIN out = Columns("int", WidestKeySet(1))
                                      \cup Columns("float", WidestKeySet(2))
                  /\ \A n \in 1..WidestKeySet(1) :
                        out["int" \o ToString(n)] =
                            ExpectedCell(keys[1], n, src.int_groups, 0)
                  /\ \A n \in 1..WidestKeySet(2) :
                        out["float" \o ToString(n)] =
                            ExpectedCell(keys[2], n, src.float_groups, "0.0")

\* customer 7 has int keys {a, Z} of a document four int columns wide: its row S1
\* has Z -> int1 = 3, a -> int2 = 9 (the later group), int3 = int4 = 0
C18_Witness ==
    /\ Returned("transform_chunk")
    /\ call.source_rows = <<S1, S2>>
    /\ call.customer_to_keys = (7 :> <<{K_a, K_Z}, {}>>) @@ (11 :> <<IntKeys, FloatKeys>>)
    /\ ret[1].rows[1].metrics =
           ("int1" :> 3) @@ ("int2" :> 9) @@ ("int3" :> 0) @@ ("int4" :> 0)
           @@ ("float1" :> "0.0") @@ ("float2" :> "0.0")

-----------------------------------------------------------------------------
(* Properties of the thread pool (specifications SpecAwait and Spec).      *)

InPool == pc \in {"submit", "collect", "merge"}

Finished(i) == futures[i].st \in {"ok", "err"}

\* one future per window, in window order; every finished future stands for exactly
\* one scan of its window; done counts the futures yielded; the function has
\* returned only with all N futures finished and yielded
AwaitInv ==
    /\ Len(futures) <= Len(chunks)
    /\ scan_ok \cap scan_failed = {}
    /\ InPool =>
          /\ pc \in {"collect", "merge"} => Len(futures) = Len(chunks)
          /\ done = Cardinality({i \in DOMAIN futures : futures[i].yielded})
          /\ \A i \in DOMAIN futures : futures[i].yielded => Finished(i)
          /\ {i \in DOMAIN chunks : <<CurDay, CurCid, i>> \in scan_ok \cup scan_failed}
                = {i \in DOMAIN futures : Finished(i)}
          /\ \A i \in DOMAIN futures :
                futures[i].st = "err" <=> <<CurDay, CurCid, i>> \in scan_failed
    /\ pc = "merge" =>
          /\ done = Len(chunks)
          /\ \A i \in DOMAIN futures : futures[i].yielded

\* a finished scan is never run again, and a scan that fails changes no other
\* future of the pool
AwaitStep ==
    (InPool /\ pc' \in {"submit", "collect", "merge"}) =>
        /\ Len(futures') >= Len(futures)
        /\ \A i \in DOMAIN futures :
              /\ Finished(i) => futures'[i].st = futures[i].st
              /\ (futures[i].st # "err" /\ futures'[i].st = "err") =>
                    \A j \in DOMAIN futures \ {i} : futures'[j] = futures[j]

\* C19: in discover_all_keys_for_customer_day_mt each of the N windows is
\* submitted exactly once and every submitted scan is awaited: a failed window
\* is not submitted again, its failure cancels or skips no sibling, the function
\* returns only after N completions were counted (done = total_chunks), and, each
\* scan eventually returning or raising, it does return.
C19_EveryWindowAwaited ==
    /\ []AwaitInv
    /\ [][AwaitStep]_vars
    /\ (pc = "submit") ~> (pc = "merge")

\* three windows, the first scan failed, and the function has returned with
\* done = 3 and the keys of the second window
C19_Witness ==
    /\ pc = "merge"
    /\ Len(chunks) = 3
    /\ done = 3
    /\ futures[1].st = "err" /\ futures[2].st = "ok" /\ futures[3].st = "ok"
    /\ int_keys = {K_a_metric}

\* C20: at every point of a run the number of window scans executing at the same
\* time, each with its own open worker connection, is at most max_workers.
C20_AtMostMaxWorkersRunning ==
    /\ Cardinality(Running) <= PyMax(args.max_workers, 0)
    /\ pc \notin {"submit", "collect"} => Running = {}

\* two workers, three windows: two scans are running and the third waits
C20_Witness ==
    /\ args.max_workers = 2
    /\ Len(futures) = 3
    /\ Cardinality(Running) = 2
    /\ futures[3].st = "queued"
    /\ pc = "collect"

-----------------------------------------------------------------------------
(* Scans of different (day, customer) pairs.                               *)

\* the (day, customer) pairs main has finished with: the customers of the days
\* before d, and the customers before cid of day d
PairsBefore ==
    {<<dates[j], c>> : j \in 1..(di - 1), c \in Tenants} \cup
    {<<dates[di], customers[k]>> : k \in 1..(ci - 1)}

\* the pairs of this run that had a customer on their day
PairsWithRows == {p \in PairsBefore : \E r \in table : r.day = p[1] /\ r.cid = p[2]}

Finished_scans == scan_ok \cup scan_failed

AllScansCompleted(p) ==
    \A i \in DOMAIN build_chunks_for_day(p[1], args.chunk_mins).chunks :
        <<p[1], p[2], i>> \in Finished_scans

\* C21: window scans of different (day, customer) pairs never overlap: while main
\* is at day d and customer cid (fetching the customers of d, or scanning for
\* cid), every window scan of every earlier pair has completed, the only scans
\* that have started are those of earlier pairs and of (d, cid), and a scan
\* runs only inside the pool of the current pair.
C21_PairsNeverOverlap ==
    pc \in {"fetch", "discover", "submit", "collect", "merge"} =>
        /\ \A p \in PairsWithRows : AllScansCompleted(p)
        /\ \A s \in Finished_scans :
              \/ <<s[1], s[2]>> \in PairsWithRows
              \/ pc \in {"submit", "collect", "merge"} /\ s[1] = CurDay /\ s[2] = CurCid
        /\ Running # {} => pc \in {"submit", "collect"}
        /\ pc = "fetch" => futures = <<>>

\* the second customer of a day is being scanned, after the two windows of the
\* first customer completed
C21_Witness ==
    /\ pc = "collect"
    /\ ci = 2
    /\ Len(chunks) = 2
    /\ Running # {}
    /\ AllScansCompleted(<<CurDay, customers[1]>>)
    /\ \E i \in 1..2 : <<CurDay, customers[1], i>> \in scan_failed

-----------------------------------------------------------------------------
(* Who writes the accumulators.                                            *)

\* a step of a worker thread: the state of some task changes
WorkerStep ==
    \E i \in DOMAIN futures :
        i \in DOMAIN futures' /\ futures'[i].st # futures[i].st

\* the tasks whose record changes in the step
TouchedTasks ==
    {i \in DOMAIN futures : i \in DOMAIN futures' /\ futures'[i] # futures[i]}

AccumulatorWritten ==
    \/ int_keys' # int_keys
    \/ float_keys' # float_keys
    \/ customer_to_keys' # customer_to_keys

\* a step of a worker leaves the three accumulators, the position of the main
\* thread and every other task alone, and what it returns is computed from the
\* table and its own window only
WorkerStepIsPrivate ==
    WorkerStep =>
        /\ ~AccumulatorWritten
        /\ pc' = pc
        /\ Cardinality(TouchedTasks) = 1
        /\ \A i \in TouchedTasks :
              futures'[i].st = "ok" =>
                  futures'[i].result =
                      run_chunk_query(table, CurCid, chunks[i][1], chunks[i][2])

\* the main thread merges one yielded result at a time, keeping what was there
MergeKeepsAll ==
    (pc = "collect" /\ pc' = "collect" /\ AccumulatorWritten) =>
        /\ \E i \in DOMAIN futures :
              /\ ~futures[i].yielded /\ futures'[i].yielded
              /\ futures[i].st = "ok"
              /\ int_keys' = int_keys \cup futures[i].result[1]
              /\ float_keys' = float_keys \cup futures[i].result[2]
              /\ \A j \in DOMAIN futures \ {i} : futures'[j] = futures[j]
        /\ customer_to_keys' = customer_to_keys

\* C22: only the main (scheduler) thread writes the per-day key sets and the
\* per-customer accumulator: a step of a worker thread changes none of them and
\* only its own task, returning a result built from its own scan; a write to an
\* accumulator is one step of the main thread that adds to what is there, so no
\* update is lost.
C22_OnlySchedulerWritesAccumulators ==
    [][WorkerStepIsPrivate /\ MergeKeepsAll]_vars

\* a result was merged into the day's sets while another scan was still running
C22_Witness ==
    /\ pc = "collect"
    /\ int_keys # {}
    /\ Running # {}
    /\ \E i \in DOMAIN futures : futures[i].yielded /\ futures[i].st = "ok"

-----------------------------------------------------------------------------
(* The connection of a window scan.                                        *)

\* the tasks whose client is open
OpenClients == {i \in DOMAIN futures : futures[i].client = "open"}

\* the client of a task is open exactly while the task is between build_client
\* and its return or exception
ClientLifecycle ==
    \A i \in DOMAIN futures :
        /\ futures[i].st \in {"queued", "connecting"} => futures[i].client = "none"
        /\ futures[i].st \in {"int", "float"} <=> futures[i].client = "open"
        /\ futures[i].st = "ok" => futures[i].client = "closed"
        /\ futures[i].st = "err" => futures[i].client \in {"none", "closed"}

\* a task that raised contributes no key of either kind, even when its int
\* query had returned keys
FailedScanContributesNothing ==
    \A i \in DOMAIN futures :
        futures[i].st = "err" =>
            /\ futures[i].result = <<{}, {}>>
            /\ futures[i].res_int = {}
            /\ <<CurDay, CurCid, i>> \in scan_failed
            /\ <<CurDay, CurCid, i>> \notin scan_ok

\* C23: every _run_chunk_query opens its own connection and has closed it when
\* it returns or raises; a scan whose int query succeeded and whose float query
\* raised is a failed scan and contributes neither kind of key; once
\* discover_all_keys_for_customer_day_mt has returned no worker connection is
\* open.
C23_WorkerConnectionsAreClosed ==
    /\ pc \in {"submit", "collect", "merge"} =>
          ClientLifecycle /\ FailedScanContributesNothing
    /\ pc \notin {"submit", "collect"} => OpenClients = {}
    /\ OpenClients \subseteq Running

\* the function has returned; one scan failed at its float query after its int
\* query had found keys (R2's window), another succeeded; both clients are closed
C23_Witness ==
    /\ pc = "merge"
    /\ Len(futures) = 2
    /\ futures[1].st = "ok" /\ futures[1].client = "closed"
    /\ futures[2].st = "err" /\ futures[2].client = "closed"
    /\ KeptKeys(build_union_all_keys_sql(table, chunks[2][1], chunks[2][2], CurCid, "int")) # {}
    /\ int_keys = futures[1].result[1]
    /\ int_keys # {}

-----------------------------------------------------------------------------
(* SimpleKeyDiscoverer.discover_all_keys (simple_key_discovery.py): the     *)
(* sequential discoverer, one query per chunk of the day.                   *)

CHUNK_MINUTES == 1

\* what execute_query does for a chunk: "ok" (the one row of the aggregation),
\* "rows0" / "rows2" (a result of 0 or 2 rows), "raise"
QueryOutcomes == {"ok", "rows0", "rows2", "raise"}

\* the environment of a call: the outcome of every query, and another outcome at
\* the chunks of `special`
SpecialChunks == {{}, {0}, {720}, {1439}, {0, 720}}

Environments ==
    {[dflt |-> d, special |-> S, at |-> a] :
        d \in {"ok", "raise", "rows0"}, S \in SpecialChunks, a \in {"ok", "raise", "rows2"}}

QueryOutcome(env, chunk_idx) ==
    IF chunk_idx \in env.special THEN env.at ELSE env.dflt

\* lines 56-65: chunk_start and chunk_end of chunk chunk_idx
SeqChunkWindow(fixed_date, chunk_idx, chunks_per_hour) ==
    LET hour == chunk_idx \div chunks_per_hour
        chunk_within_hour == chunk_idx % chunks_per_hour
        minute == chunk_within_hour * CHUNK_MINUTES
        end_minute == minute + CHUNK_MINUTES - 1
    IN  <<[day |-> fixed_date, h |-> hour, m |-> minute, s |-> 0],
          [day |-> fixed_date, h |-> hour, m |-> end_minute, s |-> 59]>>

\* lines 69-106: the one row of the aggregation, the keys of the int groups and
\* of the float groups over the customer's rows in [chunk_start, chunk_end]
discover_chunk_query(rows, chunk_start, chunk_end, customer_id) ==
    LET hit == {x \in rows : /\ RowMs(x) >= LiteralMs(chunk_start)
                             /\ RowMs(x) <= LiteralMs(chunk_end)
                             /\ x.cid = customer_id}
    IN  [ints |-> UNION {r.ints : r \in hit}, floats |-> UNION {r.floats : r \in hit}]

\* lines 121-134: "if key and key.strip()": the key is added as it is
SeqKeptKeys(keys) == {k \in keys : k # <<>> /\ ~IsBlank(k)}

SeqTables == {CandidateRows, {R1, R3}}

SeqCalls ==
    {[fn |-> "discover_all_keys", fixed_date |-> d, customer_id |-> c, env |-> e] :
        d \in Days, c \in Tenants, e \in Environments}

InitSeq ==
    /\ call \in SeqCalls
    /\ ret = <<>>
    /\ table \in SeqTables
    /\ ProcessIdle
    /\ frame = <<>> /\ target = <<>> /\ pipeline = <<>>

\* lines 35-53: the check of CHUNK_MINUTES, the empty sets, the chunk counts
SeqStart ==
    /\ call.fn = "discover_all_keys"
    /\ frame = <<>>
    /\ ret = <<>>
    /\ IF 60 % CHUNK_MINUTES # 0
       THEN /\ ret' = <<[err |-> "ValueError"]>>
            /\ frame' = [pc |-> "raised"]
       ELSE /\ frame' = [pc |-> "loop",
                         int_keys |-> {}, float_keys |-> {},
                         chunks_per_hour |-> 60 \div CHUNK_MINUTES,
                         total_chunks |-> 24 * (60 \div CHUNK_MINUTES),
                         successful_chunks |-> 0,
                         chunk_idx |-> 0]
            /\ UNCHANGED ret
    /\ UNCHANGED <<call, target, pipeline, processVars>>

InLoop ==
    /\ call.fn = "discover_all_keys"
    /\ frame # <<>>
    /\ frame.pc = "loop"
    /\ frame.chunk_idx < frame.total_chunks

\* lines 109-141: the query returns one row; its keys are added; the chunk counts
SeqChunkOk ==
    /\ InLoop
    /\ QueryOutcome(call.env, frame.chunk_idx) = "ok"
    /\ LET w == SeqChunkWindow(call.fixed_date, frame.chunk_idx, frame.chunks_per_hour)
           row == discover_chunk_query(table, w[1], w[2], call.customer_id)
       IN  frame' = [frame EXCEPT
                        !.int_keys = @ \cup SeqKeptKeys(row.ints),
                        !.float_keys = @ \cup SeqKeptKeys(row.floats),
                        !.successful_chunks = @ + 1,
                        !.chunk_idx = @ + 1]
    /\ UNCHANGED <<call, ret, target, pipeline, processVars>>

\* lines 112-114: len(result.result_rows) != 1: continue
SeqChunkWrongRowCount ==
    /\ InLoop
    /\ QueryOutcome(call.env, frame.chunk_idx) \in {"rows0", "rows2"}
    /\ frame' = [frame EXCEPT !.chunk_idx = @ + 1]
    /\ UNCHANGED <<call, ret, target, pipeline, processVars>>

\* mutant of SeqChunkRaises: the exception is not caught
SeqChunkRaisesAborts ==
    /\ InLoop
    /\ QueryOutcome(call.env, frame.chunk_idx) = "raise"
    /\ frame' = [frame EXCEPT !.pc = "raised"]
    /\ ret' = <<[err |-> "Exception"]>>
    /\ UNCHANGED <<call, target, pipeline, processVars>>

\* lines 143-145: execute_query raises: the chunk is logged and skipped
SeqChunkRaises ==
    /\ InLoop
    /\ QueryOutcome(call.env, frame.chunk_idx) = "raise"
    /\ frame' = [frame EXCEPT !.chunk_idx = @ + 1]
    /\ UNCHANGED <<call, ret, target, pipeline, processVars>>

\* lines 147-158: after the loop: no successful chunk raises, else the sorted lists
SeqReturn ==
    /\ call.fn = "discover_all_keys"
    /\ frame # <<>>
    /\ frame.pc = "loop"
    /\ frame.chunk_idx >= frame.total_chunks
    /\ IF frame.successful_chunks = 0
       THEN /\ ret' = <<[err |-> "Exception"]>>
            /\ frame' = [frame EXCEPT !.pc = "raised"]
       ELSE /\ ret' = <<[err |-> "none",
                         sorted_int_keys |-> Sorted(frame.int_keys),
                         sorted_float_keys |-> Sorted(frame.float_keys)]>>
            /\ frame' = [frame EXCEPT !.pc = "returned"]
    /\ UNCHANGED <<call, target, pipeline, processVars>>

NextSeq ==
    \/ SeqStart
    \/ SeqChunkOk
    \/ SeqChunkWrongRowCount
    \/ SeqChunkRaises
    \/ SeqReturn

SpecSeq == InitSeq /\ [][NextSeq]_vars

\* the chunks of the call whose query returned its one row
SeqSuccessful ==
    {i \in 0..(24 * (60 \div CHUNK_MINUTES) - 1) : QueryOutcome(call.env, i) = "ok"}

\* the keys the query of chunk i returns, blank ones dropped
SeqChunkKeys(i, kind) ==
    LET w == SeqChunkWindow(call.fixed_date, i, 60 \div CHUNK_MINUTES)
        row == discover_chunk_query(table, w[1], w[2], call.customer_id)
    IN  SeqKeptKeys(IF kind = "int" THEN row.ints ELSE row.floats)

IsSortedNoDup(seq) ==
    \A i \in DOMAIN seq : \A j \in DOMAIN seq : i < j => LexLess(seq[i], seq[j])

\* a step of the loop processes chunk chunk_idx and goes on to the next one; a
\* successful chunk adds its keys and counts, any other chunk changes nothing
SeqLoopStep ==
    (frame # <<>> /\ frame.pc = "loop" /\ frame.chunk_idx < frame.total_chunks) =>
        LET i == frame.chunk_idx
            ok == QueryOutcome(call.env, i) = "ok"
        IN  /\ frame'.pc = "loop"
            /\ ret' = <<>>
            /\ frame'.chunk_idx = i + 1
            /\ frame'.total_chunks = 24 * (60 \div CHUNK_MINUTES)
            /\ frame'.successful_chunks = frame.successful_chunks + (IF ok THEN 1 ELSE 0)
            /\ frame'.successful_chunks <= frame'.chunk_idx
            /\ frame'.int_keys =
                  frame.int_keys \cup (IF ok THEN SeqChunkKeys(i, "int") ELSE {})
            /\ frame'.float_keys =
                  frame.float_keys \cup (IF ok THEN SeqChunkKeys(i, "float") ELSE {})

\* at the end: an exception if and only if no chunk was successful, else the
\* sorted, duplicate-free union over the successful chunks
SeqResultInv ==
    ret # <<>> =>
        /\ ret[1].err # "none" <=> SeqSuccessful = {}
        /\ ret[1].err = "none" =>
              /\ Range(ret[1].sorted_int_keys) =
                    UNION {SeqChunkKeys(i, "int") : i \in SeqSuccessful}
              /\ Range(ret[1].sorted_float_keys) =
                    UNION {SeqChunkKeys(i, "float") : i \in SeqSuccessful}
              /\ IsSortedNoDup(ret[1].sorted_int_keys)
              /\ IsSortedNoDup(ret[1].sorted_float_keys)
              /\ frame.chunk_idx = frame.total_chunks
              /\ frame.successful_chunks = Cardinality(SeqSuccessful)
              /\ frame.successful_chunks <= frame.total_chunks

\* C24: discover_all_keys processes the 24*(60/CHUNK_MINUTES) chunks of the day in
\* order; a chunk whose query raises or returns a number of rows other than 1 is
\* skipped, adds no key, is not counted, and the later chunks are still
\* processed; the function raises if and only if no chunk was successful, and
\* otherwise returns the sorted duplicate-free union of the keys of the
\* successful chunks; successful_chunks never exceeds total_chunks.
C24_SequentialDiscoverySkipsFailedChunks ==
    []SeqResultInv /\ [][SeqLoopStep]_vars

\* the call returned keys although the query of chunk 0, which holds a row of
\* the customer, raised
C24_Witness ==
    /\ ret # <<>>
    /\ ret[1].err = "none"
    /\ QueryOutcome(call.env, 0) = "raise"
    /\ discover_chunk_query(table, SeqChunkWindow(call.fixed_date, 0, 60)[1],
                            SeqChunkWindow(call.fixed_date, 0, 60)[2],
                            call.customer_id).ints # {}
    /\ ret[1].sorted_int_keys = <<K_a_metric>>
    /\ frame.successful_chunks = 1439

-----------------------------------------------------------------------------
(* build_nested_mapping on a customer's key sets before and after they     *)
(* grow (a run over more days).                                            *)

\* customer 7's key sets before and after, customer 11 unchanged
GrowCalls ==
    {[fn |-> "build_nested_mapping_twice",
      before |-> (7 :> <<s[1], f[1]>>) @@ (11 :> o),
      after  |-> (7 :> <<s[2], f[2]>>) @@ (11 :> o)] :
        s \in {p \in (SUBSET IntKeys) \X (SUBSET IntKeys) : p[1] \subseteq p[2]},
        f \in {p \in (SUBSET FloatKeys) \X (SUBSET FloatKeys) : p[1] \subseteq p[2]},
        o \in {<<{}, {}>>, <<{K_a, K_Z}, {K_f}>>}}

InitGrow ==
    /\ call \in GrowCalls
    /\ ret = <<>>
    /\ ProcessOff
    /\ StepperOff

\* the mapping is built from the smaller sets, then rebuilt from the larger ones
CallBuildNestedMappingTwice ==
    /\ call.fn = "build_nested_mapping_twice"
    /\ ret = <<>>
    /\ \E now \in Clock :
          ret' = <<build_nested_mapping(SOURCE_TABLE, call.before, <<1>>, now),
                   build_nested_mapping(SOURCE_TABLE, call.after, <<1, 2>>, now + 1)>>
    /\ UNCHANGED <<call, stepVars, processVars>>

NextGrow == CallBuildNestedMappingTwice

SpecGrow == InitGrow /\ [][NextGrow]_vars

\* the number i of the column f"<kind>{i}" that `mapping` gives to key k
ColumnNumber(mapping, kind, k) ==
    CHOOSE i \in 0..(Cardinality(DOMAIN mapping) + 1) : mapping[k] = ColName(kind, i)

NewKeysBefore(old, new, k) == {n \in new \ old : LexLess(n, k)}

ShiftOk(old, new, kind, map_old, map_new) ==
    \A k \in old :
        LET c_old == ColumnNumber(map_old, kind, k)
            c_new == ColumnNumber(map_new, kind, k)
        IN  /\ k \in DOMAIN map_old /\ k \in DOMAIN map_new
            /\ c_old >= 1
            /\ c_new = c_old + Cardinality(NewKeysBefore(old, new, k))
            /\ c_new >= c_old
            /\ (map_new[k] = map_old[k]) <=> (NewKeysBefore(old, new, k) = {})

\* C25: when a customer's key set grows from S to a superset S' and the mapping
\* is rebuilt, every key k of S gets a column number that is its previous one
\* plus the number of new keys that sort before k: never smaller, and the same
\* column if and only if no new key sorts before k.
C25_ColumnsShiftByNewKeysBefore ==
    (ret # <<>> /\ call.fn = "build_nested_mapping_twice") =>
        LET b == ret[1].customers[Str(7)]
            a == ret[2].customers[Str(7)]
        IN  /\ ShiftOk(call.before[7][1], call.after[7][1], "int",
                       b.int_mapping, a.int_mapping)
            /\ ShiftOk(call.before[7][2], call.after[7][2], "float",
                       b.float_mapping, a.float_mapping)
            /\ (\A n \in call.after[7][1] \ call.before[7][1] :
                    \A k \in call.before[7][1] : LexLess(k, n))
                 => \A k \in call.before[7][1] : a.int_mapping[k] = b.int_mapping[k]

\* "a" had int1 and "a_metric" int2; with the new keys "Z" (before both) and
\* "b_metric" (after both) they have int2 and int3
C25_Witness ==
    /\ ret # <<>>
    /\ call.fn = "build_nested_mapping_twice"
    /\ call.before[7][1] = {K_a, K_a_metric}
    /\ call.after[7][1] = IntKeys
    /\ ret[1].customers[Str(7)].int_mapping[K_a_metric] = "int2"
    /\ ret[2].customers[Str(7)].int_mapping[K_a_metric] = "int3"
    /\ ret[2].customers[Str(7)].int_mapping[K_a] = "int2"

-----------------------------------------------------------------------------
(* The two mapping builders on two inputs that agree on one customer.      *)

\* the customer the two inputs agree on, and the ids of the other customers
TheTenant == 7
OtherTenants == {3, 11}

OtherKeySets == {<<{}, {}>>, <<{K_Z}, {}>>, <<IntKeys, FloatKeys>>}
OtherKeySetMaps == UNION {[D -> OtherKeySets] : D \in SUBSET OtherTenants}

OtherKeyLists == {<<<<>>, <<>>>>, <<Sorted(IntKeys), Sorted(FloatKeys)>>}
OtherKeyListMaps == UNION {[D -> OtherKeyLists] : D \in SUBSET OtherTenants}

\* pairs of lists with the same elements (duplicates and order may differ)
SameSetLists(S, n) ==
    {p \in SeqsUpTo(S, n) \X SeqsUpTo(S, n) : Range(p[1]) = Range(p[2])}

PairCalls ==
    {[fn |-> "build_nested_mapping_pair",
      first  |-> (TheTenant :> t) @@ o1,
      second |-> (TheTenant :> t) @@ o2] :
        t \in (SUBSET IntKeys) \X (SUBSET FloatKeys),
        o1 \in OtherKeySetMaps, o2 \in OtherKeySetMaps}
    \cup
    {[fn |-> "generate_nested_mapping_pair",
      first  |-> (TheTenant :> <<i[1], f[1]>>) @@ o1,
      second |-> (TheTenant :> <<i[2], f[2]>>) @@ o2] :
        i \in SameSetLists(IntKeys, MaxListLen),
        f \in SameSetLists(FloatKeys, MaxFloatListLen),
        o1 \in OtherKeyListMaps, o2 \in OtherKeyListMaps}

InitPair ==
    /\ call \in PairCalls
    /\ ret = <<>>
    /\ ProcessOff
    /\ StepperOff

CallBuildNestedMappingPair ==
    /\ call.fn = "build_nested_mapping_pair"
    /\ ret = <<>>
    /\ \E now \in Clock :
          ret' = <<build_nested_mapping(SOURCE_TABLE, call.first, <<1>>, now),
                   build_nested_mapping(SOURCE_TABLE, call.second, <<1>>, now)>>
    /\ UNCHANGED <<call, stepVars, processVars>>

CallGenerateNestedMappingPair ==
    /\ call.fn = "generate_nested_mapping_pair"
    /\ ret = <<>>
    /\ \E now \in Clock :
          ret' = <<generate_nested_mapping(call.first, now),
                   generate_nested_mapping(call.second, now)>>
    /\ UNCHANGED <<call, stepVars, processVars>>

NextPair == CallBuildNestedMappingPair \/ CallGenerateNestedMappingPair

SpecPair == InitPair /\ [][NextPair]_vars

\* C26: a customer's block (key lists, forward and reverse mappings, column
\* counts) depends on that customer's key sets only: two inputs that agree on
\* the customer's keys and differ in the other customers give the same block,
\* from build_nested_mapping and from generate_nested_mapping alike.
C26_BlockIndependentOfOtherTenants ==
    (ret # <<>> /\ call.fn \in {"build_nested_mapping_pair", "generate_nested_mapping_pair"}) =>
        /\ Str(TheTenant) \in DOMAIN ret[1].customers
        /\ Str(TheTenant) \in DOMAIN ret[2].customers
        /\ ret[1].customers[Str(TheTenant)] = ret[2].customers[Str(TheTenant)]
        /\ DOMAIN ret[1].customers = {Str(c) : c \in DOMAIN call.first}
        /\ DOMAIN ret[2].customers = {Str(c) : c \in DOMAIN call.second}

\* alone in one input, with two larger customers in the other: the widths of the
\* two tables differ, the customer's block does not
C26_Witness ==
    /\ ret # <<>>
    /\ call.fn = "build_nested_mapping_pair"
    /\ DOMAIN call.first = {TheTenant}
    /\ DOMAIN call.second = {3, TheTenant, 11}
    /\ call.first[TheTenant] = <<{K_a_metric}, {K_f}>>
    /\ ret[1].max_columns.int_columns = 1
    /\ ret[2].max_columns.int_columns = 4
    /\ ret[2].customers[Str(TheTenant)].int_mapping[K_a_metric] = "int1"

-----------------------------------------------------------------------------
(* Rows and the windows of their day.                                      *)

\* the windows of `chunks` whose scan predicate start <= timestampMs <= end row r meets
WindowsHolding(r) ==
    {i \in DOMAIN chunks : /\ RowMs(r) >= LiteralMs(chunks[i][1])
                           /\ RowMs(r) <= LiteralMs(chunks[i][2])}

\* C27: every row of the customer whose timestampMs lies within the day meets
\* the scan predicate of exactly one of the windows of build_chunks_for_day, so
\* that the scans of a day, when all succeed, return the keys of every row.
C27_EveryRowInExactlyOneWindow ==
    /\ pc \in {"submit", "collect", "merge"} =>
          \A r \in table :
              (r.day = CurDay /\ r.cid = CurCid) => Cardinality(WindowsHolding(r)) = 1
    /\ (pc = "merge" /\ \A i \in DOMAIN futures : futures[i].st = "ok") =>
          \A r \in table :
              (r.day = CurDay /\ r.cid = CurCid) =>
                  /\ KeptKeys(r.ints) \subseteq int_keys
                  /\ KeptKeys(r.floats) \subseteq float_keys

-----------------------------------------------------------------------------
(* Window sizes that are zero or negative.                                 *)

\* C28: build_chunks_for_day raises for every chunk_minutes that is zero or
\* negative; whenever it returns, the list holds at least one window.
C28_NonPositiveWindowSizeIsRejected ==
    (ret # <<>> /\ call.fn = "build_chunks_for_day") =>
        /\ call.chunk_minutes <= 0 => ret[1].err # "none"
        /\ ret[1].err = "none" => Len(ret[1].chunks) >= 1

-----------------------------------------------------------------------------
(* DataTransformer.transform_day_data (data_transformer.py): one count, one *)
(* aggregated fetch, one transform and one insert per chunk of the day.     *)

TD_CHUNK_MINUTES == 1

\* a row the target table held before the call
OldRow == [customerId |-> 0, metrics |-> EmptyDict]

\* the mapping file the transformer was built with: customer 7 only
TdKeys == (7 :> <<{K_a, K_Z}, {K_f}>>)

\* the aggregated source: the chunk (minute of the day) a group of rows falls
\* in, with the number of raw rows behind it; every other chunk is empty
TdData ==
    {[k \in {} |-> [raw |-> 0, rows |-> <<>>]],
     (0 :> [raw |-> 3, rows |-> <<S1, S2>>]) @@ (720 :> [raw |-> 1, rows |-> <<S2>>])
        @@ (722 :> [raw |-> 2, rows |-> <<S3, S4>>])
        @@ (1439 :> [raw |-> 2, rows |-> <<S1>>] )}

\* the environment: no failure, TRUNCATE raising, or one step of one chunk raising
TdFailures ==
    {[at |-> -1, step |-> "none"], [at |-> -1, step |-> "truncate"]}
    \cup {[at |-> c, step |-> s] :
            c \in {0, 5, 720, 1439},
            s \in {"count", "fetch", "transform", "insert"}}

StartChunks == {0, 1, 720, 1439, 1440, 1441}

TdCalls ==
    {[fn |-> "transform_day_data", fixed_date |-> 1, customer_id |-> c,
      truncate_target |-> t, start_from_chunk |-> s, data |-> d, fail |-> f] :
        c \in Tenants, t \in BOOLEAN, s \in StartChunks, d \in TdData, f \in TdFailures}

\* lines 92-100: start_time and end_time ("...:59.999") of chunk chunk_idx
TdChunkWindow(fixed_date, chunk_idx, chunks_per_hour) ==
    LET hour == PyFloorDiv(chunk_idx, chunks_per_hour)
        chunk_within_hour == PyMod(chunk_idx, chunks_per_hour)
        minute == chunk_within_hour * TD_CHUNK_MINUTES
        end_minute == minute + TD_CHUNK_MINUTES - 1
    IN  <<[day |-> fixed_date, h |-> hour, m |-> minute, s |-> 0, ms |-> 0],
          [day |-> fixed_date, h |-> hour, m |-> end_minute, s |-> 59, ms |-> 999]>>

\* the groups of the customer whose minute lies in [start_time, end_time]
GroupsIn(data, window, customer_id) ==
    {k \in DOMAIN data :
        /\ k * 60000 >= ((window[1].h * 60 + window[1].m) * 60 + window[1].s) * 1000
                           + window[1].ms
        /\ k * 60000 <= ((window[2].h * 60 + window[2].m) * 60 + window[2].s) * 1000
                           + window[2].ms
        /\ \A i \in DOMAIN data[k].rows : data[k].rows[i].customerId = customer_id}

\* _count_chunk_raw_rows
count_chunk_raw_rows(data, window, customer_id) ==
    LET hit == GroupsIn(data, window, customer_id)
    IN  IF hit = {} THEN 0 ELSE data[CHOOSE k \in hit : TRUE].raw

\* _fetch_chunk_aggregated
fetch_chunk_aggregated(data, window, customer_id) ==
    LET hit == GroupsIn(data, window, customer_id)
    IN  IF hit = {} THEN <<>> ELSE data[CHOOSE k \in hit : TRUE].rows

InitTd ==
    /\ call \in TdCalls
    /\ ret = <<>>
    /\ ProcessOff
    /\ frame = <<>>
    /\ target = [rows |-> <<OldRow>>, truncated |-> 0, inserts |-> 0]
    /\ pipeline = <<>>

\* lines 69-83: the new stats dict
NewStats(FIXED_DATE, CUSTOMER_ID, start_from_chunk, truncate_target) ==
    [date |-> FIXED_DATE, customer_id |-> CUSTOMER_ID,
     chunk_minutes |-> TD_CHUNK_MINUTES,
     start_from_chunk |-> start_from_chunk,
     truncated_target |-> truncate_target,
     source_rows_processed |-> 0,
     target_rows_inserted |-> 0,
     chunks_processed |-> 0,
     raw_rows_before_agg |-> 0,
     agg_rows_after_agg |-> 0,
     errors |-> <<>>]

\* lines 53-91: TRUNCATE when asked to, the stats dict, the chunk counts
TdStart ==
    /\ call.fn = "transform_day_data"
    /\ frame = <<>>
    /\ ret = <<>>
    /\ call.fail.step # "truncate" \/ ~call.truncate_target
    /\ target' = IF call.truncate_target
                 THEN [target EXCEPT !.rows = <<>>, !.truncated = @ + 1]
                 ELSE target
    /\ frame' = [pc |-> "loop",
                 stats |-> NewStats(call.fixed_date, call.customer_id,
                                    call.start_from_chunk, call.truncate_target),
                 chunks_per_hour |-> 60 \div TD_CHUNK_MINUTES,
                 total_chunks |-> 24 * (60 \div TD_CHUNK_MINUTES),
                 chunk_idx |-> call.start_from_chunk]
    /\ UNCHANGED <<call, ret, pipeline, processVars>>

\* lines 62-64: TRUNCATE raises, outside the try: the call raises
TdTruncateRaises ==
    /\ call.fn = "transform_day_data"
    /\ frame = <<>>
    /\ ret = <<>>
    /\ call.fail.step = "truncate" /\ call.truncate_target
    /\ frame' = [pc |-> "raised"]
    /\ ret' = <<[err |-> "Exception"]>>
    /\ UNCHANGED <<call, target, pipeline, processVars>>

TdInLoop ==
    /\ call.fn = "transform_day_data"
    /\ frame # <<>>
    /\ frame.pc = "loop"
    /\ frame.chunk_idx < frame.total_chunks

\* the step of chunk chunk_idx that raises, "none" if none does
TdFailingStep ==
    IF call.fail.at = frame.chunk_idx THEN call.fail.step ELSE "none"

TdWindow == TdChunkWindow(call.fixed_date, frame.chunk_idx, frame.chunks_per_hour)

\* lines 105-118: count and fetch; no row in the chunk: continue
TdChunkEmpty ==
    /\ TdInLoop
    /\ TdFailingStep \notin {"count", "fetch"}
    /\ LET raw_count == count_chunk_raw_rows(call.data, TdWindow, call.customer_id)
           chunk_rows == fetch_chunk_aggregated(call.data, TdWindow, call.customer_id)
       IN  /\ chunk_rows = <<>>
           /\ frame' = [frame EXCEPT !.stats.raw_rows_before_agg = @ + raw_count,
                                     !.chunk_idx = @ + 1]
    /\ UNCHANGED <<call, ret, target, pipeline, processVars>>

\* self.mapping (lines 20-30): the mapping file the transformer was built with, in
\* run_pipeline the file KEY_MAPPING_FILE as it was when phase 3 began
TdMapping ==
    IF pipeline = <<>>
    THEN build_nested_mapping(SOURCE_TABLE, TdKeys, <<1>>, 100)
    ELSE pipeline.transformer_mapping

\* _transform_chunk with the mapping the transformer loaded
TdTransformed(chunk_rows) == transform_chunk(TdMapping, chunk_rows)

\* lines 105-131: a chunk with rows, transformed and inserted
TdChunkInserted ==
    /\ TdInLoop
    /\ TdFailingStep = "none"
    /\ LET raw_count == count_chunk_raw_rows(call.data, TdWindow, call.customer_id)
           chunk_rows == fetch_chunk_aggregated(call.data, TdWindow, call.customer_id)
           transformed_data == TdTransformed(chunk_rows)
       IN  /\ chunk_rows # <<>>
           /\ transformed_data.err = "none"
           /\ target' = [target EXCEPT !.rows = @ \o transformed_data.rows,
                                       !.inserts = @ + 1]
           /\ frame' = [frame EXCEPT
                           !.stats.raw_rows_before_agg = @ + raw_count,
                           !.stats.agg_rows_after_agg = @ + Len(chunk_rows),
                           !.stats.source_rows_processed = @ + Len(chunk_rows),
                           !.stats.chunks_processed = @ + 1,
                           !.stats.target_rows_inserted = @ + Len(transformed_data.rows),
                           !.chunk_idx = @ + 1]
    /\ UNCHANGED <<call, ret, pipeline, processVars>>

\* mutant of TdQueryRaises: the try is inside the loop, the next chunk follows
TdQueryRaisesContinues ==
    /\ TdInLoop
    /\ TdFailingStep \in {"count", "fetch"}
    /\ frame' = [frame EXCEPT !.stats.errors = Append(@, "Transformation failed"),
                              !.chunk_idx = @ + 1]
    /\ UNCHANGED <<call, ret, target, pipeline, processVars>>

\* lines 105-106, 133-136: the count or the fetch raises: nothing of the chunk is
\* counted
TdQueryRaises ==
    /\ TdInLoop
    /\ TdFailingStep \in {"count", "fetch"}
    /\ frame' = [frame EXCEPT !.stats.errors = Append(@, "Transformation failed"),
                              !.pc = "after"]
    /\ UNCHANGED <<call, ret, target, pipeline, processVars>>

\* lines 120-136: _transform_chunk or _insert_batch raises, after the chunk was
\* counted as processed
TdTransformOrInsertRaises ==
    /\ TdInLoop
    /\ TdFailingStep \notin {"count", "fetch"}
    /\ LET raw_count == count_chunk_raw_rows(call.data, TdWindow, call.customer_id)
           chunk_rows == fetch_chunk_aggregated(call.data, TdWindow, call.customer_id)
       IN  /\ chunk_rows # <<>>
           /\ \/ TdFailingStep \in {"transform", "insert"}
              \/ TdTransformed(chunk_rows).err # "none"
           /\ frame' = [frame EXCEPT
                           !.stats.raw_rows_before_agg = @ + raw_count,
                           !.stats.agg_rows_after_agg = @ + Len(chunk_rows),
                           !.stats.source_rows_processed = @ + Len(chunk_rows),
                           !.stats.chunks_processed = @ + 1,
                           !.stats.errors = Append(@, "Transformation failed"),
                           !.pc = "after"]
    /\ UNCHANGED <<call, ret, target, pipeline, processVars>>

\* lines 138-153: after the loop or the except clause: return stats
TdReturn ==
    /\ call.fn = "transform_day_data"
    /\ frame # <<>>
    /\ \/ frame.pc = "after"
       \/ frame.pc = "loop" /\ frame.chunk_idx >= frame.total_chunks
    /\ ret' = <<[err |-> "none", stats |-> frame.stats]>>
    /\ frame' = [frame EXCEPT !.pc = "returned"]
    /\ UNCHANGED <<call, target, pipeline, processVars>>

NextTd ==
    \/ TdStart
    \/ TdTruncateRaises
    \/ TdChunkEmpty
    \/ TdChunkInserted
    \/ TdQueryRaises
    \/ TdTransformOrInsertRaises
    \/ TdReturn

SpecTd == InitTd /\ [][NextTd]_vars

\* the call is running its loop or has left it
TdRunning ==
    call.fn = "transform_day_data" /\ frame # <<>> /\ frame.pc \in {"loop", "after", "returned"}

\* a step of the call: chunks are taken in ascending order from start_from_chunk;
\* once a step of a chunk has raised, one error is recorded, no further chunk is
\* touched and nothing more is inserted; rows are counted as inserted exactly
\* when they are added to the target table
TdStep ==
    (TdRunning /\ frame'.pc \in {"loop", "after", "returned"}) =>
        /\ frame.chunk_idx >= call.start_from_chunk
        /\ frame'.chunk_idx \in {frame.chunk_idx, frame.chunk_idx + 1}
        /\ frame'.chunk_idx > frame.chunk_idx =>
              frame.pc = "loop" /\ frame.chunk_idx < frame.total_chunks
        /\ frame.stats.errors # <<>> =>
              /\ frame'.chunk_idx = frame.chunk_idx
              /\ frame'.stats = frame.stats
              /\ target' = target
              /\ frame'.pc = "returned"
        /\ Len(frame'.stats.errors) <= 1
        /\ frame'.stats.target_rows_inserted - frame.stats.target_rows_inserted
              = Len(target'.rows) - Len(target.rows)
        /\ target'.truncated = target.truncated

\* the rows the call found in the table and did not truncate
TdKept == IF call.truncate_target THEN 0 ELSE 1

\* what holds when the call has returned
TdReturned(bound) ==
    (call.fn = "transform_day_data" /\ ret # <<>>) =>
        \/ ret[1].err # "none" /\ call.fail.step = "truncate" /\ call.truncate_target
        \/ /\ ret[1].err = "none"
           /\ ret[1].stats = frame.stats
           /\ Len(ret[1].stats.errors) <= 1
           /\ ret[1].stats.errors = <<>> =>
                 frame.chunk_idx = PyMax(call.start_from_chunk, frame.total_chunks)
           /\ ret[1].stats.target_rows_inserted = Len(target.rows) - TdKept
           /\ ret[1].stats.chunks_processed <= bound
           /\ target.inserts <= ret[1].stats.chunks_processed

\* C29 as stated: ... and chunks_processed <= total_chunks - start_from_chunk.
C29_ChunksProcessedWithinRange ==
    TdReturned(24 * (60 \div TD_CHUNK_MINUTES) - call.start_from_chunk)

\* C29, amended: transform_day_data takes the chunks start_from_chunk ..
\* total_chunks-1 in ascending order and none below start_from_chunk; at the
\* first chunk whose count, fetch, transform or insert raises it stops, records
\* exactly one error and returns the stats; target_rows_inserted is the number
\* of rows of the chunks whose insert completed; chunks_processed is at most
\* max(0, total_chunks - start_from_chunk).
C29_TransformStopsAtFirstFailure ==
    /\ []TdReturned(PyMax(0, 24 * (60 \div TD_CHUNK_MINUTES) - call.start_from_chunk))
    /\ [][TdStep]_vars

\* started at chunk 720: the rows of chunk 720 were inserted, the insert of chunk
\* 1439 raised, one error, the rows of chunk 0 never touched
C29_Witness ==
    /\ call.fn = "transform_day_data"
    /\ ret # <<>>
    /\ ret[1].err = "none"
    /\ call.start_from_chunk = 720
    /\ call.fail = [at |-> 1439, step |-> "insert"]
    /\ Len(ret[1].stats.errors) = 1
    /\ ret[1].stats.target_rows_inserted = 1
    /\ ret[1].stats.chunks_processed = 2
    /\ frame.chunk_idx = 1439

-----------------------------------------------------------------------------
(* run_pipeline (run_transformation_pipeline.py): key discovery, schema     *)
(* generation and transformation, one customer after the other.             *)

\* lines 47-50: the configuration of the run
RUN_KEY_DISCOVERY == TRUE
DROP_TARGET_TABLE_BEFORE_CREATE == TRUE
TRUNCATE_TARGET_TABLE == TRUE
START_FROM_CHUNK == 0

\* line 53: FIXED_DATE = TRANSFORMATION_DATE
FIXED_DATE == TRANSFORMATION_DATE

\* CUSTOMERS of settings.py, the values examined
CustomerLists == {<<7, 11>>, <<11, 7>>, <<7>>}

AllOk == [dflt |-> "ok", special |-> {}, at |-> "ok"]
AllRaise == [dflt |-> "raise", special |-> {}, at |-> "ok"]
NoFailure == [at |-> -1, step |-> "none"]

\* the environment of a run with no failure: the source answers, every discovery
\* query returns its row, the table is created, both connections answer, no step
\* of the transformation raises, and the three output files can be written
QuietRun ==
    [source_ok |-> TRUE, disc |-> <<AllOk, AllOk>>, save |-> "ok", schema |-> "ok",
     conns_ok |-> TRUE, fail |-> <<NoFailure, NoFailure>>,
     transformation_stats_ok |-> TRUE, pipeline_stats |-> "ok"]

\* the environments examined: the quiet run, and runs with one kind of failure.
\* schema: "ok", "no_connection" (create_target_table returns False before the
\* DROP), "drop_raises" (the DROP raises, which is caught, and the table is
\* created over its old rows), "ddl_raises" (writing or executing the DDL raises
\* after the DROP), "describe_raises" (DESCRIBE raises after the CREATE),
\* "report_raises" (the table is created and writing table_info.json raises).
\* save, pipeline_stats: the write of the mapping file (save_mapping) and of
\* output/reports/pipeline_stats.json: "ok", "open_raises" (open() raises, the
\* file is as it was) or "write_raises" (open() succeeded and json.dump or the
\* close raises: the file is created or truncated and holds no document).
\* transformation_stats_ok: whether output/reports/transformation_stats.json,
\* which nothing of the run reads, is written or its write raises
PipelineEnvironments ==
    {QuietRun, [QuietRun EXCEPT !.source_ok = FALSE], [QuietRun EXCEPT !.conns_ok = FALSE],
     [QuietRun EXCEPT !.save = "open_raises"],
     [QuietRun EXCEPT !.save = "write_raises"],
     [QuietRun EXCEPT !.transformation_stats_ok = FALSE],
     [QuietRun EXCEPT !.pipeline_stats = "open_raises"],
     [QuietRun EXCEPT !.pipeline_stats = "write_raises"],
     [QuietRun EXCEPT !.save = "open_raises", !.pipeline_stats = "open_raises"],
     [QuietRun EXCEPT !.save = "write_raises", !.pipeline_stats = "write_raises"],
     [QuietRun EXCEPT !.transformation_stats_ok = FALSE, !.pipeline_stats = "open_raises"]}
    \cup {[QuietRun EXCEPT !.disc = d] :
            d \in {<<AllRaise, AllOk>>, <<AllOk, AllRaise>>,
                   <<[dflt |-> "raise", special |-> {720}, at |-> "ok"], AllOk>>,
                   <<[dflt |-> "ok", special |-> {0}, at |-> "rows2"], AllOk>>}}
    \cup {[QuietRun EXCEPT !.schema = s] :
            s \in {"no_connection", "drop_raises", "ddl_raises", "describe_raises",
                   "report_raises"}}
    \cup {[QuietRun EXCEPT !.fail = f] :
            f \in {<<[at |-> -1, step |-> "truncate"], NoFailure>>,
                   <<NoFailure, [at |-> -1, step |-> "truncate"]>>,
                   <<[at |-> 0, step |-> "insert"], NoFailure>>,
                   <<NoFailure, [at |-> 722, step |-> "insert"]>>,
                   <<[at |-> 720, step |-> "count"], [at |-> 5, step |-> "fetch"]>>}}

\* the aggregated source the transformer reads: groups of both customers
PipelineData ==
    (0 :> [raw |-> 3, rows |-> <<S1, S2>>]) @@ (720 :> [raw |-> 1, rows |-> <<S2>>])
        @@ (722 :> [raw |-> 2, rows |-> <<S3, S4>>])
        @@ (1439 :> [raw |-> 2, rows |-> <<S1>>])

InitPipeline ==
    /\ call = [fn |-> "run_pipeline"]
    /\ ret = <<>>
    /\ table = CandidateRows
    /\ ProcessIdle
    /\ frame = <<>>
    /\ target = [rows |-> <<OldRow>>, truncated |-> 0, inserts |-> 0, created |-> 0]
    /\ \E ids \in CustomerLists, e \in PipelineEnvironments :
          pipeline = [pc |-> "start",
                      env |-> e,
                      CUSTOMER_IDS |-> ids,
                      log |-> <<>>,
                      phases |-> <<>>,
                      overall_success |-> FALSE,
                      error |-> <<>>,
                      idx |-> 0,
                      waiting |-> FALSE,
                      customer_keys |-> <<>>,
                      key_mapping_file |-> <<>>,
                      transformer_mapping |-> <<>>,
                      all_transform_stats |-> <<>>,
                      pipeline_stats_file |-> <<>>]

\* lines 167-170: the except clause; the finally clause comes next
PipelineFailed(p, e) ==
    [p EXCEPT !.pc = "finally", !.error = <<e>>, !.overall_success = FALSE,
              !.waiting = FALSE]

\* lines 53-71: phase 1 begins: the source connection is tested
PipeStart ==
    /\ pipeline # <<>>
    /\ pipeline.pc = "start"
    /\ IF RUN_KEY_DISCOVERY
       THEN LET p == [pipeline EXCEPT !.log = Append(@, "PHASE 1: KEY DISCOVERY")]
            IN  IF ~pipeline.env.source_ok
                THEN pipeline' = PipelineFailed(p, "Source database connection failed")
                ELSE pipeline' = [p EXCEPT !.pc = "discover", !.idx = 0,
                                           !.customer_keys = <<>>]
       ELSE pipeline' = [pipeline EXCEPT
                            !.log = Append(@, "PHASE 1: KEY DISCOVERY - SKIPPED"),
                            !.phases = Append(@, [name |-> "key_discovery",
                                                   status |-> "SKIPPED"]),
                            !.pc = "schema"]
    /\ UNCHANGED <<call, ret, frame, target, processVars>>

\* lines 75-76: discover_all_keys is called for the next customer
PipeCallDiscover ==
    /\ pipeline # <<>>
    /\ pipeline.pc = "discover"
    /\ ~pipeline.waiting
    /\ pipeline.idx < Len(pipeline.CUSTOMER_IDS)
    /\ call' = [fn |-> "discover_all_keys", fixed_date |-> FIXED_DATE,
                customer_id |-> pipeline.CUSTOMER_IDS[pipeline.idx + 1],
                env |-> pipeline.env.disc[pipeline.idx + 1]]
    /\ ret' = <<>>
    /\ frame' = <<>>
    /\ pipeline' = [pipeline EXCEPT !.waiting = TRUE]
    /\ UNCHANGED <<target, processVars>>

\* lines 76-78: discover_all_keys returned or raised
PipeDiscovered ==
    /\ pipeline # <<>>
    /\ pipeline.pc = "discover"
    /\ pipeline.waiting
    /\ ret # <<>>
    /\ IF ret[1].err # "none"
       THEN pipeline' = PipelineFailed(pipeline, ret[1].err)
       ELSE pipeline' = [pipeline EXCEPT
                            !.customer_keys =
                                (call.customer_id :> <<ret[1].sorted_int_keys,
                                                       ret[1].sorted_float_keys>>) @@ @,
                            !.idx = @ + 1,
                            !.waiting = FALSE]
    /\ UNCHANGED <<call, ret, frame, target, processVars>>

\* lines 80-91: the nested mapping is generated and saved; phase 1 is complete.
\* save_mapping (simple_key_discovery.py lines 225-230) opens the file without
\* creating its directory and writes the document: when open() raises, the file
\* is left as it was; when the write raises, the file is left created or
\* truncated, without a document; either way no phase is recorded and the except
\* clause is entered
PipeSaveMapping ==
    /\ pipeline # <<>>
    /\ pipeline.pc = "discover"
    /\ ~pipeline.waiting
    /\ pipeline.idx >= Len(pipeline.CUSTOMER_IDS)
    /\ \E now \in Clock :
          LET nested_mapping == generate_nested_mapping(pipeline.customer_keys, now)
          IN  IF pipeline.env.save = "open_raises"
              THEN pipeline' = PipelineFailed(pipeline, "FileNotFoundError")
              ELSE IF pipeline.env.save = "write_raises"
              THEN pipeline' = PipelineFailed(
                                  [pipeline EXCEPT !.key_mapping_file = <<NoDocument>>],
                                  "OSError")
              ELSE pipeline' = [pipeline EXCEPT
                                  !.key_mapping_file = <<nested_mapping>>,
                                  !.phases = Append(@, [name |-> "key_discovery",
                                                         status |-> "SUCCESS"]),
                                  !.pc = "schema"]
    /\ UNCHANGED <<call, ret, frame, target, processVars>>

\* lines 102-121: phase 2: SchemaGenerator loads the mapping file;
\* create_target_table (schema_generator.py lines 120-160) tests the connection,
\* sends DROP TABLE IF EXISTS (a DROP that raises is logged and the create goes
\* on), CREATE TABLE IF NOT EXISTS and DESCRIBE, and returns False when any other
\* step raises; then table_info.json is written
PipeSchema ==
    /\ pipeline # <<>>
    /\ pipeline.pc = "schema"
    /\ LET p == [pipeline EXCEPT !.log = Append(@, "PHASE 2: SCHEMA GENERATION")]
           outcome == pipeline.env.schema
           dropped == IF DROP_TARGET_TABLE_BEFORE_CREATE /\ outcome # "drop_raises"
                      THEN [target EXCEPT !.rows = <<>>]
                      ELSE target
           created == [dropped EXCEPT !.created = @ + 1]
       IN  IF pipeline.key_mapping_file = <<>>
           THEN /\ pipeline' = PipelineFailed(p, "FileNotFoundError")
                /\ UNCHANGED target
           ELSE IF ~HoldsDocument(pipeline.key_mapping_file)
           THEN /\ pipeline' = PipelineFailed(p, "JSONDecodeError")
                /\ UNCHANGED target
           ELSE IF outcome = "no_connection"
           THEN /\ pipeline' = PipelineFailed(p, "Target table creation failed")
                /\ UNCHANGED target
           ELSE IF outcome = "ddl_raises"
           THEN /\ pipeline' = PipelineFailed(p, "Target table creation failed")
                /\ target' = dropped
           ELSE IF outcome = "describe_raises"
           THEN /\ pipeline' = PipelineFailed(p, "Target table creation failed")
                /\ target' = created
           ELSE IF outcome = "report_raises"
           THEN /\ pipeline' = PipelineFailed(p, "OSError")
                /\ target' = created
           ELSE /\ pipeline' = [p EXCEPT
                                   !.phases = Append(@, [name |-> "schema_generation",
                                                          status |-> "SUCCESS"]),
                                   !.pc = "transform"]
                /\ target' = created
    /\ UNCHANGED <<call, ret, frame, processVars>>

\* lines 123-133: phase 3 begins: the transformer loads the mapping file and
\* tests both connections
PipeTransformerInit ==
    /\ pipeline # <<>>
    /\ pipeline.pc = "transform"
    /\ LET p == [pipeline EXCEPT !.log = Append(@, "PHASE 3: DATA TRANSFORMATION")]
       IN  IF pipeline.key_mapping_file = <<>>
           THEN pipeline' = PipelineFailed(p, "FileNotFoundError")
           ELSE IF ~HoldsDocument(pipeline.key_mapping_file)
           THEN pipeline' = PipelineFailed(p, "JSONDecodeError")
           ELSE IF ~pipeline.env.conns_ok
           THEN pipeline' = PipelineFailed(p, "Database connection tests failed")
           ELSE pipeline' = [p EXCEPT
                                !.transformer_mapping = pipeline.key_mapping_file[1],
                                !.all_transform_stats = <<>>,
                                !.idx = 0,
                                !.pc = "transform_loop"]
    /\ UNCHANGED <<call, ret, frame, target, processVars>>

\* mutant of TruncateFor: every customer's call truncates
TruncateForEvery(idx) == TRUNCATE_TARGET_TABLE

\* line 135: truncate = TRUNCATE_TARGET_TABLE if idx == 0 else False
TruncateFor(idx) == IF idx = 0 THEN TRUNCATE_TARGET_TABLE ELSE FALSE

\* lines 134-143: transform_day_data is called for the next customer
PipeCallTransform ==
    /\ pipeline # <<>>
    /\ pipeline.pc = "transform_loop"
    /\ ~pipeline.waiting
    /\ pipeline.idx < Len(pipeline.CUSTOMER_IDS)
    /\ call' = [fn |-> "transform_day_data", fixed_date |-> FIXED_DATE,
                customer_id |-> pipeline.CUSTOMER_IDS[pipeline.idx + 1],
                truncate_target |-> TruncateFor(pipeline.idx),
                start_from_chunk |-> START_FROM_CHUNK,
                data |-> PipelineData,
                fail |-> pipeline.env.fail[pipeline.idx + 1]]
    /\ ret' = <<>>
    /\ frame' = <<>>
    /\ pipeline' = [pipeline EXCEPT !.waiting = TRUE]
    /\ UNCHANGED <<target, processVars>>

\* lines 138-144: transform_day_data returned its stats, or raised
PipeTransformed ==
    /\ pipeline # <<>>
    /\ pipeline.pc = "transform_loop"
    /\ pipeline.waiting
    /\ ret # <<>>
    /\ IF ret[1].err # "none"
       THEN pipeline' = PipelineFailed(pipeline, ret[1].err)
       ELSE pipeline' = [pipeline EXCEPT
                            !.all_transform_stats =
                                (Str(call.customer_id) :> ret[1].stats) @@ @,
                            !.idx = @ + 1,
                            !.waiting = FALSE]
    /\ UNCHANGED <<call, ret, frame, target, processVars>>

\* sum(len(s.get("errors", [])) for s in all_transform_stats.values())
RECURSIVE TotalErrors(_)
TotalErrors(all_stats) ==
    IF DOMAIN all_stats = {} THEN 0
    ELSE LET c == CHOOSE c \in DOMAIN all_stats : TRUE
         IN  Len(all_stats[c].errors)
             + TotalErrors([d \in DOMAIN all_stats \ {c} |-> all_stats[d]])

\* lines 146-165: transformation_stats.json is written inside the try: when
\* open() raises, phase 3 is not recorded and the except clause is entered;
\* otherwise the stats of phase 3 are recorded and overall_success is set
PipeFinish ==
    /\ pipeline # <<>>
    /\ pipeline.pc = "transform_loop"
    /\ ~pipeline.waiting
    /\ pipeline.idx >= Len(pipeline.CUSTOMER_IDS)
    /\ IF ~pipeline.env.transformation_stats_ok
       THEN pipeline' = PipelineFailed(pipeline, "FileNotFoundError")
       ELSE pipeline' = [pipeline EXCEPT
                            !.phases = Append(@, [name |-> "data_transformation",
                                                   status |->
                                                      IF TotalErrors(pipeline.all_transform_stats) = 0
                                                      THEN "SUCCESS"
                                                      ELSE "COMPLETED_WITH_ERRORS"]),
                            !.overall_success = TRUE,
                            !.pc = "finally"]
    /\ UNCHANGED <<call, ret, frame, target, processVars>>

\* lines 172-196: the finally clause writes pipeline_stats.json, after a run that
\* succeeded and after one that failed; when open() raises, or when the write
\* raises and leaves the file without a document, the exception leaves
\* run_pipeline, which then returns nothing; otherwise run_pipeline returns
\* pipeline_stats
PipeFinally ==
    /\ pipeline # <<>>
    /\ pipeline.pc = "finally"
    /\ IF pipeline.env.pipeline_stats = "open_raises"
       THEN pipeline' = [pipeline EXCEPT !.pc = "raised"]
       ELSE IF pipeline.env.pipeline_stats = "write_raises"
       THEN pipeline' = [pipeline EXCEPT !.pipeline_stats_file = <<NoDocument>>,
                                         !.pc = "raised"]
       ELSE pipeline' = [pipeline EXCEPT
                            !.pipeline_stats_file =
                                <<[phases          |-> pipeline.phases,
                                   overall_success |-> pipeline.overall_success,
                                   error           |-> pipeline.error]>>,
                            !.pc = IF pipeline.overall_success THEN "done" ELSE "failed"]
    /\ UNCHANGED <<call, ret, frame, target, processVars>>

NextPipeline ==
    \/ PipeStart
    \/ PipeCallDiscover
    \/ PipeDiscovered
    \/ PipeSaveMapping
    \/ PipeSchema
    \/ PipeTransformerInit
    \/ PipeCallTransform
    \/ PipeTransformed
    \/ PipeFinish
    \/ PipeFinally
    \/ NextSeq
    \/ NextTd

SpecPipeline == InitPipeline /\ [][NextPipeline]_vars

\* the banners run_pipeline logs when a phase begins (lines 66, 104, 125)
PhaseBanners ==
    <<"PHASE 1: KEY DISCOVERY", "PHASE 2: SCHEMA GENERATION", "PHASE 3: DATA TRANSFORMATION">>

\* the entries of pipeline_stats["phases"], in the order the phases write them
PhaseNames == <<"key_discovery", "schema_generation", "data_transformation">>

StartsWith(long, short) ==
    /\ Len(short) <= Len(long)
    /\ \A i \in DOMAIN short : long[i] = short[i]

\* the phases began in order, each after the one before it had recorded its
\* completion; a failed run has not completed the phase it raised in
PhasesInOrder ==
    pipeline # <<>> =>
        /\ StartsWith(PhaseBanners, pipeline.log)
        /\ Len(pipeline.phases) <= Len(pipeline.log)
        /\ \A i \in DOMAIN pipeline.phases :
              /\ pipeline.phases[i].name = PhaseNames[i]
              /\ i < Len(pipeline.log) => pipeline.phases[i].status = "SUCCESS"
        /\ Len(pipeline.log) >= 2 => Len(pipeline.phases) >= Len(pipeline.log) - 1
        /\ (pipeline.pc = "failed"
              \/ (pipeline.pc \in {"finally", "raised"} /\ pipeline.error # <<>>)) =>
              /\ Len(pipeline.phases) = Len(pipeline.log) - 1
              /\ ~pipeline.overall_success
        /\ pipeline.overall_success => Len(pipeline.phases) = 3
        /\ target.truncated <= 1

\* a step of the run: TRUNCATE is sent only by the first customer's call, before
\* anything was inserted; once a customer's rows are in the target table no step
\* of phase 3 removes a row; the except and finally clauses leave the target
\* table and the recorded phases alone, and a run that has ended does nothing more
PipelineStep ==
    (pipeline # <<>> /\ pipeline' # <<>>) =>
        /\ target'.truncated # target.truncated =>
              /\ pipeline.pc = "transform_loop"
              /\ pipeline.idx = 0
              /\ call.customer_id = pipeline.CUSTOMER_IDS[1]
              /\ target.inserts = 0
              /\ target'.truncated = target.truncated + 1
        /\ (pipeline.pc = "transform_loop" /\ (pipeline.idx >= 1 \/ target.inserts > 0)) =>
              StartsWith(target'.rows, target.rows)
        /\ pipeline.log # pipeline'.log =>
              pipeline.pc \in {"start", "schema", "transform"}
        /\ pipeline.pc = "finally" =>
              /\ target' = target
              /\ pipeline'.phases = pipeline.phases
              /\ pipeline'.log = pipeline.log
        /\ pipeline.pc \in {"failed", "raised", "done"} =>
              (pipeline' = pipeline /\ target' = target)

\* C30: in run_pipeline the target table is truncated at most once, by the first
\* customer's transform_day_data call and before the first insert, so no row
\* inserted for an earlier customer is removed while a later customer is
\* transformed; the phases begin in the order key discovery, schema generation,
\* transformation, each only after the previous one completed without raising.
C30_TruncateOnceAndPhasesInOrder ==
    /\ []PhasesInOrder
    /\ [][PipelineStep]_vars

\* a run over customers 7 and 11 that succeeded: one TRUNCATE, the four rows of
\* customer 7 still in the table before the two rows of customer 11
C30_Witness ==
    /\ pipeline # <<>>
    /\ pipeline.pc = "done"
    /\ pipeline.CUSTOMER_IDS = <<7, 11>>
    /\ pipeline.overall_success
    /\ Len(pipeline.phases) = 3
    /\ target.truncated = 1
    /\ Len(target.rows) = 6
    /\ \A i \in 1..4 : target.rows[i].customerId = 7
    /\ \A i \in 5..6 : target.rows[i].customerId = 11

=============================================================================
